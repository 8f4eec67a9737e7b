---------------------------- MODULE ClassRegister ----------------------------
(***************************************************************************)
(* The class register of one namespace and its two LRU caches             *)
(* (classProviderSf.c): getClass reads a class record from the store and   *)
(* keeps it in the C cache; getResolvedClass, in a reduced repository,     *)
(* merges the ancestors into a new class (mergeParents) and keeps it in    *)
(* the R cache.  The class provider's requests (GetClass, EnumClasses,     *)
(* EnumClassNames) run under the register's write lock, so each is one    *)
(* atomic step.                                                            *)
(*                                                                         *)
(* Class objects (CMPIConstClass) are explicit: "heap" holds every object  *)
(* ever allocated, "live" those not yet CMRelease'd.  A cache slot holds   *)
(* an object id (0 is NULL).  The register is the record "reg"; the cache  *)
(* operations are operators from a register to a register, so that the    *)
(* nested calls of one request compose in the order the code makes them.  *)
(*                                                                         *)
(* Before any request, newClassRegister reads the namespace's classSchemas *)
(* record by record ("ld"): the version record, then each class record,   *)
(* whose file position and length go into the index getClass later reads  *)
(* with gzseek and gzread.  A store it rejects makes the namespace absent. *)
(* A record is abstracted to its type ("version", "class", "other", or    *)
(* "tail": fewer bytes than a header), whether its body is whole, and for *)
(* a version record its byte order, id, level and reduced option, and for *)
(* a class record whether it is an HDR_Class (resolved) one ("hdr").       *)
(* Record k starts at file offset k: gztell after record k is k + 1.      *)
(***************************************************************************)
EXTENDS Integers, Sequences, FiniteSets, TLC

CONSTANTS
    Classes,      \* the class records of the store (the hash table keys)
    Parent,       \* class -> superclass name (possibly not in Classes) or NoParent
    NoParent,     \* model value: no superclass (crec->parent == NULL)
    Own,          \* class -> properties its own (reduced) record declares
    OwnParams,    \* class -> <<method, parameter>> its own record declares
    OwnParamQuals, \* class -> <<method, parameter, qualifier>> it declares
    Abstract,     \* classes whose own qualifiers include Abstract
    RecordOrder,  \* the hash table's iteration order: a sequence of Classes
    CSize,        \* cSize, capacity of the C cache
    RSize,        \* rSize, capacity of the R cache
    Providers,    \* classes with a registered instance provider (pReg)
    Assocs,       \* classes whose record carries CREC_isAssociation
    FilterClasses, \* the classes repCandidate always refuses
    Requests,     \* the provider requests clients send: [op, cn, deep, arg]
    MaxRequests,  \* bound on the number of requests
    Garbage,      \* model value: what a freed object reads as
    Stores,       \* the classSchemas files the namespace may hold
    Dummy         \* model value: a class name beginning "DMY_"

ASSUME Len(RecordOrder) = Cardinality(Classes)
ASSUME CSize \in Nat /\ RSize \in Nat

VARIABLES
    store,        \* the namespace's classSchemas: a sequence of records
    ld,           \* the loader: phase, next record, pos, first, cr->vr, index, it
    reg,          \* the ClassBase: caches and the objects they point to
    reply,        \* [req, result] of the last request answered
    nreq          \* requests served so far

vars == <<store, ld, reg, reply, nreq>>

Svc == INSTANCE ClassService

Result(err, set) == Svc!Result(err, set)
Ancestry(c) == Svc!Chain(c)

-----------------------------------------------------------------------------
(* Class objects.                                                          *)

\* What a class object holds: its name, superclass, properties, method
\* parameters and their qualifiers, and whether its quals carry
\* ClClass_Q_Abstract.
ClassContent(n, p, ps, pms, pqs, abs) ==
    [name |-> n, parent |-> p, props |-> ps, params |-> pms, pquals |-> pqs,
     abstract |-> abs]

\* The classes whose record in the store is an HDR_Class one.
Complete == {store[k].name : k \in {i \in DOMAIN store : store[i].hdr}}

\* The record getClass reads from the store: in a full repository, and for
\* an HDR_Class record, the class with everything it inherits; otherwise
\* the reduced record with its own members only.
StoredRecord(isReduced, c) ==
    LET own(F) == IF isReduced /\ c \notin Complete THEN F[c]
                  ELSE UNION {F[a] : a \in Ancestry(c).cls}
    IN  ClassContent(c, Parent[c], own(Own), own(OwnParams), own(OwnParamQuals),
                     c \in Abstract)

\* Faulty variant of Alloc: the new object is recorded one slot too far.
AllocOffByOne(r, content) ==
    [r EXCEPT !.heap = Append(@, content), !.live = @ \union {Len(r.heap) + 2}]

\* NEW(CMPIConstClass) / malloc: a fresh object holding content.
Alloc(r, content) ==
    [r EXCEPT !.heap = Append(@, content), !.live = @ \union {Len(r.heap) + 1}]
NewId(r) == Len(r.heap) + 1

\* CMRelease: freeing an object that is not live is a double free.
CMRelease(r, o) ==
    IF o \in r.live THEN [r EXCEPT !.live = @ \ {o}]
    ELSE [r EXCEPT !.fault = "double free"]

\* An empty class named c.
NewClassOf(c) == ClassContent(c, Parent[c], {}, {}, {}, FALSE)

\* What object o holds while it is allocated.
Content(r, o) == IF o \in r.live THEN r.heap[o] ELSE Garbage

\* What the code reads through a class pointer o: a freed object still
\* holds its bytes until the heap hands them out again, which no request
\* of the register does before it reads them (one outcome of the read of
\* freed memory, the one an allocator that does not scrub gives).  The
\* NULL pointer (0) reads as garbage.
Read(r, o) == IF o \in DOMAIN r.heap THEN r.heap[o] ELSE Garbage

\* A cache slot handed out: its object may have been freed by a caller
\* that released it as if it were uncached.
HandOut(r, o) == IF o \in r.live THEN r ELSE [r EXCEPT !.fault = "use after free"]

-----------------------------------------------------------------------------
(* The two LRU lists: a sequence, head = most recently used.               *)

Remove(s, c) == SelectSeq(s, LAMBDA x : x # c)

\* DEQ_FROM_LIST then ENQ_TOP_LIST.
MoveToHead(s, c) == <<c>> \o Remove(s, c)

\* pruneCCache: while cachedCCount > cSize, drop the tail, CMRelease its
\* class and clear the slot.  An empty list has no tail (lastCCached NULL).
RECURSIVE PruneCCache(_)
PruneCCache(r) ==
    IF r.cCount <= CSize THEN r
    ELSE IF r.cList = <<>> THEN [r EXCEPT !.fault = "NULL dequeue"]
    ELSE LET crec == r.cList[Len(r.cList)]
             r1   == CMRelease(r, r.cObj[crec])
         IN  PruneCCache([r1 EXCEPT !.cList = SubSeq(@, 1, Len(@) - 1),
                                    !.cObj[crec] = 0,
                                    !.cCount = @ - 1])

\* pruneRCache: the same over the R cache.
RECURSIVE PruneRCache(_)
PruneRCache(r) ==
    IF r.rCount <= RSize THEN r
    ELSE IF r.rList = <<>> THEN [r EXCEPT !.fault = "NULL dequeue"]
    ELSE LET crec == r.rList[Len(r.rList)]
             r1   == CMRelease(r, r.rObj[crec])
         IN  PruneRCache([r1 EXCEPT !.rList = SubSeq(@, 1, Len(@) - 1),
                                    !.rObj[crec] = 0,
                                    !.rCount = @ - 1])

-----------------------------------------------------------------------------
(* getClass(cr, clsName, ctl): returns [reg, cls, ctl].  A miss reads the  *)
(* record into a new object; with tempRead that object is returned         *)
(* uncached.  Otherwise it is cached: the count is raised, the cache       *)
(* pruned if the count reached cSize (before the new record is linked in), *)
(* and the record put at the head.  A hit moves the record to the head     *)
(* whatever ctl asked for, and reports cached.  cTouch (a history kept    *)
(* for the LRU property only) records every class the C cache was asked    *)
(* to hold.                                                                *)

\* The miss path from "crec->cachedCCls = cc" to ENQ_TOP_LIST.
CacheC(r, c, o) ==
    LET r2 == [r EXCEPT !.cObj[c] = o, !.cCount = @ + 1]
        r3 == IF r2.cCount >= CSize THEN PruneCCache(r2) ELSE r2
    IN  [r3 EXCEPT !.cList = <<c>> \o @, !.cTouch = Append(@, c)]

\* cr->vr->options == ClTypeClassReducedRep; cr->vr is the set {} when NULL.
reduced == \E v \in ld.vr : v.red

\* The classes the register holds: the keys of the hash table.
Loaded == DOMAIN ld.index

\* The read of a record the C cache does not hold: gzseek to the record's
\* position, gzread its length.  Position and length taken from two
\* different records read bytes that are no class record: relocating them
\* is undefined, flagged as a fault.
ReadRecord(r, c) ==
    IF ld.index[c].position = ld.index[c].length
    THEN Alloc(r, StoredRecord(reduced, c))
    ELSE Alloc([r EXCEPT !.fault = "corrupt record"], NewClassOf(c))

\* Faulty variant of GetClass: a hit is not moved to the head of the list.
GetClassNoMoveToHead(r, c, ctl) ==
    IF c \notin Loaded THEN [reg |-> r, cls |-> 0, ctl |-> ctl]
    ELSE IF r.cObj[c] # 0
    THEN [reg |-> [HandOut(r, r.cObj[c]) EXCEPT !.cTouch = Append(@, c)],
          cls |-> r.cObj[c], ctl |-> "cached"]
    ELSE IF ctl = "tempRead"
    THEN [reg |-> ReadRecord(r, c), cls |-> NewId(r), ctl |-> ctl]
    ELSE [reg |-> CacheC(ReadRecord(r, c), c, NewId(r)), cls |-> NewId(r), ctl |-> "cached"]

GetClass(r, c, ctl) ==
    IF c \notin Loaded THEN [reg |-> r, cls |-> 0, ctl |-> ctl]
    ELSE IF r.cObj[c] # 0
    THEN [reg |-> [HandOut(r, r.cObj[c]) EXCEPT !.cList = MoveToHead(@, c),
                                                !.cTouch = Append(@, c)],
          cls |-> r.cObj[c], ctl |-> "cached"]
    ELSE IF ctl = "tempRead"
    THEN [reg |-> ReadRecord(r, c), cls |-> NewId(r), ctl |-> ctl]
    ELSE [reg |-> CacheC(ReadRecord(r, c), c, NewId(r)), cls |-> NewId(r), ctl |-> "cached"]

-----------------------------------------------------------------------------
(* mergeParents(cr, cl, p, cc, rctl): copy cc into the class being built,  *)
(* then fetch the superclass p with the caller's read mode, fold it and    *)
(* its ancestors in, and release it unless it came from the cache.  A      *)
(* superclass missing from the store ends the recursion with               *)
(* CMPI_RC_ERR_INVALID_SUPERCLASS and what was merged so far.  Returns     *)
(* [reg, mc, ok].  The fetched parent g is passed on as an argument.       *)

\* The qualifiers the parameter <<m, p>> of class mc carries.
ParamQualCount(mc, mp) == Cardinality({q \in mc.pquals : <<q[1], q[2]>> = mp})

\* The parameter qualifiers of cc that the copy loop takes: it runs to
\* ClClassGetMethParamQualifierCount(parm), the count of the parameter just
\* added to (or found in) the new class, not of cc's parameter pparm.  A
\* fresh parameter has none, so nothing is copied; the loop reads pparm's
\* qualifiers only for a parameter the new class already qualifies.
PQualsCopied(mc, cc) == {q \in cc.pquals : ParamQualCount(mc, <<q[1], q[2]>>) > 0}

\* cpyClass(cl, cc): the class qualifiers are OR'ed (here: Abstract), the
\* properties added, then each method with its parameters (addClParameter
\* keeps a parameter already there) and the parameter qualifiers copied.
CpyClass(mc, cc) ==
    [mc EXCEPT !.props = @ \union cc.props,
               !.params = @ \union cc.params,
               !.pquals = @ \union PQualsCopied(mc, cc),
               !.abstract = @ \/ cc.abstract]

\* "if (ctl != cached) CMRelease(pcc)" after the recursive call.
ReleaseParent(m, g) ==
    [m EXCEPT !.reg = IF g.ctl # "cached" THEN CMRelease(@, g.cls) ELSE @]

\* Faulty variant of MergeParents: only the direct superclass is merged.
MergeOneLevel(g, m1) ==
    IF g.cls = 0 THEN [reg |-> g.reg, mc |-> m1, ok |-> FALSE]
    ELSE ReleaseParent([reg |-> g.reg, mc |-> CpyClass(m1, Read(g.reg, g.cls)),
                        ok |-> TRUE], g)
MergeParentsOneLevel(r, mc, p, cc, rctl) ==
    IF p = NoParent THEN [reg |-> r, mc |-> CpyClass(mc, cc), ok |-> TRUE]
    ELSE MergeOneLevel(GetClass(r, p, rctl), CpyClass(mc, cc))

RECURSIVE MergeParents(_, _, _, _, _), MergeFetched(_, _, _)
MergeParents(r, mc, p, cc, rctl) ==
    IF p = NoParent THEN [reg |-> r, mc |-> CpyClass(mc, cc), ok |-> TRUE]
    ELSE MergeFetched(GetClass(r, p, rctl), CpyClass(mc, cc), rctl)

MergeFetched(g, m1, rctl) ==
    IF g.cls = 0 THEN [reg |-> g.reg, mc |-> m1, ok |-> FALSE]
    ELSE ReleaseParent(MergeParents(g.reg, m1, Read(g.reg, g.cls).parent,
                                    Read(g.reg, g.cls), rctl), g)

(***************************************************************************)
(* getResolvedClass(cr, clsName, crec, rctl): returns [reg, cls, rctl].    *)
(* In a full repository it is getClass.  In a reduced one, an R-cache hit  *)
(* moves the record to the head; a miss reads the class through getClass,  *)
(* returns it at once if it is an HDR_Class (leaving *rctl as the caller   *)
(* set it) or has no superclass, and otherwise builds a new class from it  *)
(* and its ancestors.  The new class's Abstract bit is then set to         *)
(* orig_abst, which the code reads from the new (empty) class.  With       *)
(* tempRead the new class is returned uncached (the class read first is    *)
(* released unless cached); otherwise it enters the R cache like getClass *)
(* enters the C cache.  The status of mergeParents is not looked at.       *)
(***************************************************************************)
AsResolved(g) == [reg |-> g.reg, cls |-> g.cls, rctl |-> g.ctl]

\* ClClassNew(clsName, pn): the new, empty class.
NewClass(c) == NewClassOf(c)

\* The path from "crec->cachedRCls = cc" to ENQ_TOP_LIST.
CacheR(r, c, o) ==
    LET r2 == [r EXCEPT !.rObj[c] = o, !.rCount = @ + 1]
        r3 == IF r2.rCount >= RSize THEN PruneRCache(r2) ELSE r2
    IN  [r3 EXCEPT !.rList = <<c>> \o @, !.rTouch = Append(@, c)]

\* After mergeParents (m): the Abstract bit, then tempRead or R cache.
StoreMerged(m, g, c, rctl) ==
    LET r1 == Alloc(m.reg, [m.mc EXCEPT !.abstract = NewClass(c).abstract])
    IN  IF rctl = "tempRead"
        THEN [reg |-> IF g.ctl # "cached" THEN CMRelease(r1, g.cls) ELSE r1,
              cls |-> NewId(m.reg), rctl |-> rctl]
        ELSE [reg |-> CacheR(r1, c, NewId(m.reg)), cls |-> NewId(m.reg),
              rctl |-> "cached"]

\* The class g read by getClass on an R-cache miss.
ResolveRead(g, c, rctl) ==
    IF c \in Complete THEN [reg |-> g.reg, cls |-> g.cls, rctl |-> rctl]
    ELSE IF Parent[c] = NoParent THEN AsResolved(g)
    ELSE StoreMerged(MergeParents(g.reg, NewClass(c), Parent[c],
                                  Read(g.reg, g.cls), rctl), g, c, rctl)

GetResolvedClass(r, c, rctl) ==
    IF ld.vr = {} THEN [reg |-> [r EXCEPT !.fault = "NULL dereference"], cls |-> 0, rctl |-> rctl]
    ELSE IF ~reduced THEN AsResolved(GetClass(r, c, rctl))
    ELSE IF c \notin Loaded THEN [reg |-> r, cls |-> 0, rctl |-> rctl]
    ELSE IF r.rObj[c] # 0
    THEN [reg |-> [HandOut(r, r.rObj[c]) EXCEPT !.rList = MoveToHead(@, c),
                                                !.rTouch = Append(@, c)],
          cls |-> r.rObj[c], rctl |-> "cached"]
    ELSE ResolveRead(GetClass(r, c, rctl), c, rctl)

-----------------------------------------------------------------------------
(* The inheritance table (buildInheritanceTable, addChild) and the         *)
(* provider's loops over it.                                               *)

\* getChildren(cr, c): addChild prepends each child as the records are
\* visited in hash table order, so the list is that order reversed.
RECURSIVE Reverse(_)
Reverse(s) == IF s = <<>> THEN <<>> ELSE Reverse(Tail(s)) \o <<Head(s)>>

\* The hash table's iteration order over the classes it holds.
HashOrder == SelectSeq(RecordOrder, LAMBDA k : k \in Loaded)

\* buildInheritanceTable: each class record with a superclass is prepended
\* to its superclass's list (addChild), in hash table order.
BuildInheritanceTable(index) ==
    LET order == SelectSeq(RecordOrder, LAMBDA k : k \in DOMAIN index)
    IN  [p \in {Parent[k] : k \in DOMAIN index} \ {NoParent} |->
            Reverse(SelectSeq(order, LAMBDA k : Parent[k] = p))]

ChildList(c) == IF c \in DOMAIN ld.it THEN ld.it[c] ELSE <<>>

\* The classes loopOnChildren / loopOnChildNames visit below c: each child,
\* then its own subtree.
RECURSIVE SubTree(_)
SubTree(c) ==
    LET kids == ChildList(c)
        F[i \in 0 .. Len(kids)] ==
            IF i = 0 THEN <<>> ELSE F[i - 1] \o <<kids[i]>> \o SubTree(kids[i])
    IN  F[Len(kids)]

\* "if (rctl != cached) CMRelease(cls)" after a getResolvedClass.
ReleaseUncached(g) == IF g.rctl # "cached" THEN CMRelease(g.reg, g.cls) ELSE g.reg

\* The loop body of ClassProviderEnumClasses and loopOnChildren over a
\* sequence of class names: resolve with tempRead, return the object
\* (CMReturnInstance reads it), release it unless it was cached.
RECURSIVE ReturnResolved(_, _, _), ReturnOne(_, _, _)
ReturnResolved(r, cs, acc) ==
    IF cs = <<>> THEN [reg |-> r, objs |-> acc]
    ELSE ReturnOne(GetResolvedClass(r, Head(cs), "tempRead"), Tail(cs), acc)

ReturnOne(g, rest, acc) ==
    ReturnResolved(ReleaseUncached(g), rest, acc \union {Read(g.reg, g.cls)})

Roots == SelectSeq(HashOrder, LAMBDA k : Parent[k] = NoParent)

\* ClassProviderGetClass: getResolvedClass with stdRead; the result is a
\* clone of the object found (memLinked, not a register object).
GotClass(g) ==
    [reg |-> g.reg,
     result |-> IF g.cls = 0 THEN Result("NOT_FOUND", {})
                ELSE Result("OK", {Read(g.reg, g.cls)})]

ProviderGetClass(r, req) == GotClass(GetResolvedClass(r, req.cn, "stdRead"))

\* ClassProviderEnumClasses: without a class name every record (deep) or
\* every root; with one, the class is resolved first (and released unless
\* cached), then its children or its whole subtree.
Enumerated(e) == [reg |-> e.reg, result |-> Result("OK", e.objs)]

EnumBelow(g, req) ==
    IF g.cls = 0 THEN [reg |-> g.reg, result |-> Result("INVALID_CLASS", {})]
    ELSE Enumerated(ReturnResolved(ReleaseUncached(g),
                                   IF req.deep THEN SubTree(req.cn)
                                   ELSE ChildList(req.cn), {}))

ProviderEnumClasses(r, req) ==
    IF req.cn = NoParent
    THEN Enumerated(ReturnResolved(r, IF req.deep THEN HashOrder ELSE Roots, {}))
    ELSE EnumBelow(GetResolvedClass(r, req.cn, "tempRead"), req)

SeqSet(s) == {s[i] : i \in DOMAIN s}

\* ClassProviderEnumClassNames: names only.  With a class name, the class
\* is first read with getClass(tempRead), and that object is never released.
NamesBelow(g, req) ==
    LET names == IF req.deep THEN SubTree(req.cn) ELSE ChildList(req.cn)
    IN  [reg |-> g.reg,
         result |-> IF g.cls = 0 THEN Svc!NamesResult("INVALID_CLASS", {})
                    ELSE Svc!NamesResult("OK", {names[i] : i \in DOMAIN names})]

\* The FL_assocsOnly test of a class record: its association flag.
AssocsOnlyKeeps(req, c) == req.arg # "assocsOnly" \/ c \in Assocs

ProviderEnumClassNames(r, req) ==
    IF req.cn = NoParent
    THEN [reg |-> r,
          result |-> Svc!NamesResult("OK", {c \in IF req.deep THEN Loaded ELSE SeqSet(Roots) :
                                              AssocsOnlyKeeps(req, c)})]
    ELSE NamesBelow(GetClass(r, req.cn, "tempRead"), req)

-----------------------------------------------------------------------------
(* ClassProviderInvokeMethod and its helpers.                              *)

\* "if (ctl != cached) CMRelease(cl)" after a getClass.
ReleaseRead(g) == IF g.ctl # "cached" THEN CMRelease(g.reg, g.cls) ELSE g.reg

\* The while loop of repCandidate from the class g read for name cn: a
\* provider registered for cn ends it with 0; otherwise the superclass name
\* is read from cl (a NULL cl, for a superclass the store lacks, is
\* dereferenced here), cl is released and the superclass read with
\* tempRead.  The chain's end returns 1.  Returns [reg, cand].
RECURSIVE WalkChain(_, _)
WalkChain(g, cn) ==
    IF cn \in Providers THEN [reg |-> ReleaseRead(g), cand |-> FALSE]
    ELSE IF g.cls = 0
    THEN [reg |-> [g.reg EXCEPT !.fault = "NULL dereference"], cand |-> FALSE]
    ELSE IF Read(g.reg, g.cls).parent = NoParent
    THEN [reg |-> ReleaseRead(g), cand |-> TRUE]
    ELSE WalkChain(GetClass(ReleaseRead(g), Read(g.reg, g.cls).parent, "tempRead"),
                   Read(g.reg, g.cls).parent)

\* repCandidate(cReg, cn): the indication filter and subscription classes
\* are never candidates; an Abstract class is not either; otherwise the
\* superclass chain is walked for a registered instance provider.
CandidateRead(g, c) ==
    IF Read(g.reg, g.cls).abstract THEN [reg |-> ReleaseRead(g), cand |-> FALSE]
    ELSE WalkChain(g, c)

RepCandidate(r, c) ==
    IF c \in FilterClasses THEN [reg |-> r, cand |-> FALSE]
    ELSE CandidateRead(GetClass(r, c, "tempRead"), c)

\* loopOnChildCount / loopOnChildChars over the subtree below a class (each
\* child, then its own subtree): a class is kept when ignprov is set or it
\* is a repCandidate.  Returns [reg, names, n].
RECURSIVE LoopOnChildren(_, _, _, _), Keep(_, _, _, _, _)
LoopOnChildren(r, cs, ignprov, acc) ==
    IF cs = <<>> THEN [reg |-> r, names |-> acc, n |-> Cardinality(acc)]
    ELSE IF ignprov THEN LoopOnChildren(r, Tail(cs), ignprov, acc \union {Head(cs)})
    ELSE Keep(RepCandidate(r, Head(cs)), Head(cs), Tail(cs), ignprov, acc)

Keep(rc, c, rest, ignprov, acc) ==
    LoopOnChildren(rc.reg, rest, ignprov, IF rc.cand THEN acc \union {c} ELSE acc)

\* getallchildren: count the candidates, allocate the array, and when the
\* count is not 0 walk the subtree again to fill it.
FillChildren(count, req) ==
    IF count.n = 0 THEN [reg |-> count.reg, result |-> Svc!NamesResult("OK", {})]
    ELSE LET fill == LoopOnChildren(count.reg, SubTree(req.cn),
                                    req.arg = "classignoreprov", {})
         IN  [reg |-> fill.reg, result |-> Svc!NamesResult("OK", fill.names)]

\* traverseChildren(cReg, parent, chldn): search the child lists depth
\* first for chldn.
RECURSIVE TraverseChildren(_, _)
TraverseChildren(p, chldn) ==
    \E i \in DOMAIN ChildList(p) : ChildList(p)[i] = chldn \/ TraverseChildren(ChildList(p)[i], chldn)

\* The names of nsHt: the namespace, once its register is built.
NsTable == IF ld.phase = "done" THEN {Svc!ThisNamespace} ELSE {}

\* listnamespaces: with an "ns" argument, whether nsHt holds that name
\* (CMPI_RC_ERR_NOT_FOUND if not); without one, every key of nsHt.
ListNamespaces(r, req) ==
    [reg |-> r,
     result |-> IF req.arg = NoParent THEN Svc!NamesResult("OK", NsTable)
                ELSE Svc!NamesResult(IF req.arg \in NsTable THEN "OK" ELSE "NOT_FOUND", {})]

\* ClassProviderCreateClass, ClassProviderSetClass, ClassProviderDeleteClass:
\* notSupSt, returned before any namespace is looked up.
ProviderModifyClass(r) == [reg |-> r, result |-> Result("NOT_SUPPORTED", {})]

ProviderInvokeMethod(r, req) ==
    CASE req.op = "getchildren" ->
           [reg |-> r, result |-> Svc!NamesResult("OK", SeqSet(ChildList(req.cn)))]
      [] req.op = "getallchildren" ->
           FillChildren(LoopOnChildren(r, SubTree(req.cn),
                                       req.arg = "classignoreprov", {}), req)
      [] req.op = "getassocs" ->
           [reg |-> r,
            result |-> Svc!NamesResult("OK", {c \in Loaded : c \in Assocs /\ Parent[c] = NoParent})]
      [] req.op = "ischild" ->
           [reg |-> r,
            result |-> Svc!NamesResult(IF TraverseChildren(req.cn, req.arg) THEN "OK"
                                       ELSE "FAILED", {})]
      [] req.op = "listnamespaces" -> ListNamespaces(r, req)
      [] req.op = "_startup" -> [reg |-> r, result |-> Svc!NamesResult("OK", {})]
      [] OTHER -> [reg |-> r, result |-> Svc!NamesResult("METHOD_NOT_FOUND", {})]

-----------------------------------------------------------------------------
EmptyRegister ==
    [cList |-> <<>>, cObj |-> [c \in Classes |-> 0], cCount |-> 0,
     rList |-> <<>>, rObj |-> [c \in Classes |-> 0], rCount |-> 0,
     heap |-> <<>>, live |-> {}, fault |-> "none",
     cTouch |-> <<>>, rTouch |-> <<>>]

-----------------------------------------------------------------------------
(* newClassRegister: the loop over the records of classSchemas.            *)

\* ClVerifyObjImplLevel(cr->vr): -1 for a NULL cr->vr, 1 for the supported
\* level, 0 otherwise.
VerifyObjImplLevel(vr) ==
    IF vr = {} THEN -1 ELSE IF \E v \in vr : v.level THEN 1 ELSE 0

\* The checks of one loop pass that return NULL (directory skipped): a
\* foreign-endian version record first; a record that is not a class
\* record unless it is the version record; a body shorter than its header
\* says; an id other than "sfcb-rep"; an unsupported level on the first
\* record.
Rejected(h, vRec, vr) ==
    \/ ld.first /\ h.t = "version" /\ h.fmt = "swapped"
    \/ ~vRec /\ h.t # "class"
    \/ ~h.whole
    \/ vRec /\ h.id # "sfcb-rep"
    \/ ld.first /\ VerifyObjImplLevel(vr) = 0

\* "gzread(cr->f, &hdr, sizeof(hdr)) == sizeof(hdr)": a whole header is
\* left at ld.at.
HeaderRead == ld.at <= Len(store) /\ store[ld.at].t # "tail"

\* The index entry of a class record: crec->position = pos, crec->length =
\* the size of record k, written as the record whose size it is.
IndexEntry(pos, k) == [position |-> pos, length |-> k]

\* One pass of the while loop, over the record at ld.at whose header was
\* read whole.  The first record is consumed by "continue" when the level
\* check passes, with pos set after it only if it was the version record;
\* a class record is indexed at pos (a DMY_ record is not) and pos is set
\* to gztell.
LoadRecord ==
    LET k == ld.at
        h == store[k]
        vRec == ld.first /\ h.t = "version" /\ h.fmt = "native"
        vr == IF vRec THEN {h} ELSE ld.vr
        pos == IF vRec THEN k + 1 ELSE ld.pos
    IN  /\ ld.phase = "load"
        /\ HeaderRead
        /\ ld' = CASE Rejected(h, vRec, vr) -> [ld EXCEPT !.phase = "absent"]
                   [] ld.first -> [ld EXCEPT !.at = k + 1, !.pos = pos, !.vr = vr,
                                             !.first = FALSE]
                   [] OTHER -> [ld EXCEPT !.at = k + 1, !.pos = k + 1,
                                 !.index = IF h.name = Dummy THEN @
                                           ELSE (h.name :> IndexEntry(pos, k)) @@ @]
        /\ UNCHANGED <<store, reg, reply, nreq>>

\* The loop ends when a header cannot be read whole (end of file or a
\* truncated header); buildInheritanceTable runs and the register is put
\* into the namespace table.
LoadDone ==
    /\ ld.phase = "load"
    /\ ~HeaderRead
    /\ ld' = [ld EXCEPT !.phase = "done", !.it = BuildInheritanceTable(ld.index)]
    /\ UNCHANGED <<store, reg, reply, nreq>>

-----------------------------------------------------------------------------
Init ==
    /\ store \in Stores
    /\ ld = [phase |-> "load", at |-> 1, pos |-> 1, first |-> TRUE, vr |-> {},
             index |-> <<>>, it |-> <<>>]
    /\ reg = EmptyRegister
    /\ reply = [req |-> Svc!NoRequest, result |-> Result("OK", {})]
    /\ nreq = 0

\* The state after a request: the register and the reply it produced.
Reply(out, req) ==
    /\ nreq' = nreq + 1
    /\ reg' = out.reg
    /\ reply' = [req |-> req, result |-> out.result]
    /\ UNCHANGED <<store, ld>>

\* One provider request, served under wLock as one step.
Serve(req) ==
    /\ ld.phase = "done"
    /\ nreq < MaxRequests
    /\ Reply(CASE req.op = "GetClass"       -> ProviderGetClass(reg, req)
                [] req.op = "EnumClasses"    -> ProviderEnumClasses(reg, req)
                [] req.op = "EnumClassNames" -> ProviderEnumClassNames(reg, req)
                [] req.op \in Svc!ModifyOps   -> ProviderModifyClass(reg)
                [] OTHER                     -> ProviderInvokeMethod(reg, req),
             req)

\* A request to a namespace whose store was rejected: getNsReg finds no
\* register and the provider returns CMPI_RC_ERR_INVALID_NAMESPACE; the
\* schema-changing requests never look and answer not supported.
ServeAbsent(req) ==
    /\ ld.phase = "absent"
    /\ nreq < MaxRequests
    /\ Reply(IF req.op \in Svc!ModifyOps THEN ProviderModifyClass(reg)
             ELSE [reg |-> reg, result |-> Result("INVALID_NAMESPACE", {})], req)

Next ==
    \/ LoadRecord
    \/ LoadDone
    \/ \E req \in Requests : Serve(req) \/ ServeAbsent(req)

Spec == Init /\ [][Next]_vars

-----------------------------------------------------------------------------
TypeOK ==
    /\ store \in Stores
    /\ ld.phase \in {"load", "done", "absent"}
    /\ ld.at \in 1 .. Len(store) + 1 /\ ld.pos \in 1 .. Len(store) + 1
    /\ ld.vr \subseteq {store[i] : i \in DOMAIN store}
    /\ reg.cCount \in Nat /\ reg.rCount \in Nat
    /\ reg.cObj \in [Classes -> Nat] /\ reg.rObj \in [Classes -> Nat]
    /\ reg.live \subseteq 1 .. Len(reg.heap)
    /\ reg.fault \in {"none", "double free", "NULL dequeue", "NULL dereference", "corrupt record",
                         "use after free"}
    /\ nreq \in 0 .. MaxRequests

\* The register never faults and its caches never point at freed memory:
\* no request dereferences a NULL class (a superclass the store lacks, in
\* repCandidate's walk; a NULL cr->vr), frees an object twice, hands out a
\* freed cached object, dequeues from an empty list or relocates bytes that
\* are no class record; every object a cache slot (cachedCCls,
\* cachedRCls) points to is allocated.  Callers release what getClass and
\* getResolvedClass handed them exactly when it did not come from a cache,
\* and pruning releases what it evicts.
CachedObjectsLive ==
    /\ reg.fault = "none"
    /\ \A c \in Classes : /\ (reg.cObj[c] # 0 => reg.cObj[c] \in reg.live)
                           /\ (reg.rObj[c] # 0 => reg.rObj[c] \in reg.live)

\* The most recent distinct elements of a history, most recent first.
RECURSIVE MostRecent(_)
MostRecent(h) ==
    IF h = <<>> THEN <<>>
    ELSE <<h[Len(h)]>> \o Remove(MostRecent(SubSeq(h, 1, Len(h) - 1)), h[Len(h)])

Prefix(s, k) == SubSeq(s, 1, IF k < Len(s) THEN k ELSE Len(s))

\* Both caches are LRU caches of their capacity: each holds exactly the
\* cSize (rSize) classes most recently read into or found in it, most recent
\* first, and the counters agree with the lists.  The eviction runs before
\* the new record is linked in, against a count already raised.
CachesAreLRU ==
    /\ reg.cList = Prefix(MostRecent(reg.cTouch), CSize)
    /\ reg.rList = Prefix(MostRecent(reg.rTouch), RSize)
    /\ reg.cCount = Len(reg.cList) /\ reg.rCount = Len(reg.rList)
    /\ \A c \in Classes : /\ (reg.cObj[c] # 0) = (c \in {reg.cList[i] : i \in DOMAIN reg.cList})
                           /\ (reg.rObj[c] # 0) = (c \in {reg.rList[i] : i \in DOMAIN reg.rList})

\* Every class in the R cache is the fully merged class: its own members
\* and those of all its ancestors, with its own Abstract qualifier.  A class
\* whose ancestry cannot be resolved is never cached.
RCacheHoldsResolved ==
    \A c \in Classes :
        reg.rObj[c] # 0 =>
            /\ Ancestry(c).ok
            /\ Content(reg, reg.rObj[c]) = Svc!Resolved(c)

\* Between requests every allocated class object is one a cache holds: a
\* request releases every uncached object it read.
NoLeakedClass ==
    reg.live = ({reg.cObj[c] : c \in Classes} \union {reg.rObj[c] : c \in Classes}) \ {0}

\* Clients see the class service: every answer is the one ClassService
\* gives for the request, caches or not.
ServiceRefinement == Svc!Spec

=============================================================================
