------------------------------ MODULE ClObject ------------------------------
(***************************************************************************)
(* A live object of any kind (objectImpl.c), composed of the properties    *)
(* Section of ClObjectProperty, the ObjectPath's name fields and the      *)
(* Class's qualifier, method and parameter Sections, all over the one     *)
(* String Table and Array Table of the object, and the flatten of the     *)
(* object into one block (ClObjectLayout).                                *)
(*                                                                         *)
(* The Class operations are those cpyClass (classProviderSf.c) and the    *)
(* MOF and repository readers build a class with: ClClassAddQualifier-     *)
(* Special, ClClassAddProperty, ClClassAddPropertyQualifierSpecial,       *)
(* ClClassAddMethod, ClClassAddMethodQualifier, ClClassAddMethParameter   *)
(* and ClClassAddMethParamQualifier.  A Section entry is a record whose   *)
(* name is a String Table id; "held" is a ghost: id -> the bytes the call *)
(* that stored the id gave for it.                                        *)
(***************************************************************************)
EXTENDS ClObjectProperty, TLC

CONSTANTS
    QualNames,     \* qualifier names callers pass (byte sequences)
    QualInput,     \* the CMPIData values of qualifiers: [type, null, v]
    ClassSpecial,  \* qualifier name -> the ClClass quals bit it sets
    PropSpecial,   \* qualifier name -> Key, EmbeddedObject or EmbeddedInstance
    MethodNames,   \* method and parameter names (byte sequences)
    ParamNames,
    MethodTypes,   \* the CMPIType of a method
    RefNames,      \* the refNames of class properties and parameters
    PathNames,     \* the strings ClObjectPathSet* are called with
    SizeofHdr, SizeofProperty, SizeofQualifier, SizeofMethod, SizeofParameter,
    SizeofStrBuf, SizeofArrayBuf, CLALIGN, CLEXTRA

LY == INSTANCE ClObjectLayout

XG == INSTANCE CimXmlGen

VARIABLES
    path,      \* ClObjectPath: the hostName, nameSpace, className ids (0: nls)
    cbits,     \* ClClass.quals: the Abstract/Association/Indication bits
    cquals,    \* the qualifiers Section of the Class
    methods,   \* the methods Section: [name, type, qualifiers, parameters]
    held,      \* ghost: String Table id -> the bytes stored for it
    given,     \* ghost: entity of a Class -> the qualifier names given to it
    block      \* the layout of the last rebuild, or NoBlock

objVars == <<vars, path, cbits, cquals, methods, held, block, given>>

NoBlock == [alloc |-> 0, used |-> 0, regs |-> <<>>]

PathFields == {"hostName", "nameSpace", "className"}

\* newObjectPathH: the namespace and class name ids, the host name nls.
PathInit(k) ==
    [f \in PathFields |-> IF k = "ObjectPath" /\ f # "hostName"
                          THEN IF f = "nameSpace" THEN 1 ELSE 2
                          ELSE 0]

ObjInit ==
    /\ Init
    /\ path = PathInit(kind)
    /\ cbits = {}
    /\ cquals = <<>>
    /\ methods = <<>>
    /\ held = CtorStrings(kind)
    /\ block = NoBlock
    /\ given = <<>>

\* The logical id the next addClString returns, for a table sb.
NewId(sb) == SB!NextId(sb)

AddStr(sb, w) == SB!AddClStringN(sb, SB!Terminated(w))

\* locateQualifier, locateParameter, ClClassLocateMethod: the same loop as
\* ClObjectLocateProperty over a Section of named entries.
locateQualifier(sb, qs, n) == ClObjectLocateProperty(sb, qs, n)

(***************************************************************************)
(* addClQualifier(hdr, qlfs, id, d, arrHdr) on the Section qs: if no entry *)
(* has the name, the name is added to the String Table, then a non-null  *)
(* chars or CMPIString value (stored as chars), or a non-null array into *)
(* the Array Table; the entry is appended and its position returned.      *)
(* Otherwise nothing changes and 0 is returned.  The outcome holds the    *)
(* tables, the Section, the return value and the ids it stored (strs).    *)
(***************************************************************************)
addClQualifier(qs, qn, d, mv) ==
    IF locateQualifier(strBuf, qs, qn) # 0
    THEN [sb |-> strBuf, ab |-> arr, sect |-> qs, rc |-> 0, strs |-> <<>>]
    ELSE LET sb1 == AddStr(strBuf, qn)
             str == ~d.null /\ d.type \in {"chars", "string"}
             ary == ~d.null /\ d.type = "array"
             dt  == [type |-> IF str THEN "chars" ELSE d.type, null |-> d.null,
                     v |-> CASE str -> NewId(sb1)
                             [] ary -> Len(arr.index) + 1
                             [] OTHER -> IF d.null THEN 0 ELSE d.v]
         IN  [sb   |-> IF str THEN AddStr(sb1, d.v) ELSE sb1,
              ab   |-> IF ary THEN AB!AddClArray(arr, d.v, mv).tab ELSE arr,
              sect |-> Append(qs, [name |-> NewId(strBuf), data |-> dt]),
              rc   |-> Len(qs) + 1,
              strs |-> (NewId(strBuf) :> qn) @@ (IF str THEN NewId(sb1) :> d.v ELSE <<>>)]

\* ClClassAddQualifierSpecial on a Class: Abstract, Association and
\* Indication set a bit of ClClass.quals and return 0; any other name goes
\* to addClQualifier on the Section qs.
QualifierSpecial(qs, qn, d, mv) ==
    IF qn \in DOMAIN ClassSpecial
    THEN [sb |-> strBuf, ab |-> arr, sect |-> qs, rc |-> 0, strs |-> <<>>,
          bits |-> cbits \union {ClassSpecial[qn]}]
    ELSE [bits |-> cbits] @@ addClQualifier(qs, qn, d, mv)

\* A call on the object: one of MaxOps, of the object's kind, leaving the
\* flattened layout alone.
Call(k) == /\ kind = k /\ ops < MaxOps[kind] /\ ops' = ops + 1 /\ UNCHANGED block

\* What the last call returned: an entry's position, or 0.
Ret(n) == IF n = 0 THEN "zero" ELSE "ok"

\* The outcome o of a qualifier call applied to the tables and the ghost.
Apply(o) ==
    /\ strBuf' = o.sb
    /\ arr' = o.ab
    /\ held' = o.strs @@ held
    /\ rc' = Ret(o.rc)

\* ClClassAddQualifierSpecial(&cls->hdr, &cls->qualifiers, qn, d, arrHdr)
ClClassAddQualifierSpecial(qn, d, mv) ==
    LET o == QualifierSpecial(cquals, qn, d, mv)
    IN  /\ Call("Class")
        /\ Apply(o)
        /\ cquals' = o.sect
        /\ cbits' = o.bits
        /\ UNCHANGED <<kind, props, quals, expect, oob, path, methods>>

\* ClQualifierAddQualifier(&q->hdr, &q->qualifierData, qn, d): a plain
\* addClQualifier on the declaration's qualifierData, which cquals holds
\* for this kind.
ClQualifierAddQualifier(qn, d, mv) ==
    LET o == addClQualifier(cquals, qn, d, mv)
    IN  /\ Call("Qualifier")
        /\ Apply(o)
        /\ cquals' = o.sect
        /\ UNCHANGED <<kind, props, quals, expect, oob, path, cbits, methods>>

\* The ClProperty quals bits a special property qualifier sets:
\* embeddedinstance sets the EmbeddedObject bit as well.
SpecialBits(l) == IF l = "EmbeddedInstance" THEN {"EmbeddedObject", l} ELSE {l}

\* ClClassAddPropertyQualifierSpecial(hdr, p, qn, d, arrHdr) on the i-th
\* property: key, embeddedobject and embeddedinstance set bits of its
\* quals; anything else goes through ClClassAddQualifierSpecial with the
\* property's Section, where on a Class the three class bits are caught.
ClClassAddPropertyQualifierSpecial(i, qn, d, mv) ==
    /\ Call("Class")
    /\ IF qn \in DOMAIN PropSpecial
       THEN /\ quals' = [quals EXCEPT ![i] = @ \union SpecialBits(PropSpecial[qn])]
            /\ rc' = Ret(0)
            /\ UNCHANGED <<strBuf, arr, props, cbits, held>>
       ELSE LET o == QualifierSpecial(props[i].qualifiers, qn, d, mv)
            IN  /\ Apply(o)
                /\ props' = [props EXCEPT ![i].qualifiers = o.sect]
                /\ cbits' = o.bits
                /\ UNCHANGED quals
    /\ UNCHANGED <<kind, expect, oob, path, cquals, methods>>

\* ClClassAddMethod -> addClassMethodH: a new name is appended with empty
\* qualifier and parameter Sections; an existing method gets the type t.
ClClassAddMethod(mn, t) ==
    LET i == ClObjectLocateProperty(strBuf, methods, mn)
    IN  /\ Call("Class")
        /\ IF i = 0
           THEN /\ methods' = Append(methods, [name |-> NewId(strBuf), type |-> t,
                                              qualifiers |-> <<>>, parameters |-> <<>>])
                /\ strBuf' = AddStr(strBuf, mn)
                /\ held' = (NewId(strBuf) :> mn) @@ held
                /\ rc' = Ret(Len(methods) + 1)
           ELSE /\ methods' = [methods EXCEPT ![i].type = t]
                /\ rc' = Ret(i)
                /\ UNCHANGED <<strBuf, held>>
        /\ UNCHANGED <<kind, arr, props, quals, expect, oob, path, cbits, cquals>>

\* ClClassAddMethodQualifier(hdr, m, qn, d) -> addClQualifier, no special
\* names.
ClClassAddMethodQualifier(m, qn, d, mv) ==
    LET o == addClQualifier(methods[m].qualifiers, qn, d, mv)
    IN  /\ Call("Class")
        /\ Apply(o)
        /\ methods' = [methods EXCEPT ![m].qualifiers = o.sect]
        /\ UNCHANGED <<kind, props, quals, expect, oob, path, cbits, cquals>>

\* Faulty variant of makeClParameter: the refName is added before the name,
\* the ids are taken as if the name came first.
makeClParameterRefFirst(pn, r) ==
    LET sb1 == IF r = NullName THEN strBuf ELSE AddStr(strBuf, r)
    IN  [sb |-> AddStr(sb1, pn),
         p  |-> [name |-> NewId(strBuf), refName |-> IF r = NullName THEN 0 ELSE NewId(strBuf) + 1,
                 qualifiers |-> <<>>]]

\* makeClParameter: the name, then a non-NULL refName, are added to the
\* String Table; the ClParameter holds their ids and empty qualifiers.
makeClParameter(pn, r) ==
    LET sb1 == AddStr(strBuf, pn)
    IN  [sb |-> IF r = NullName THEN sb1 ELSE AddStr(sb1, r),
         p  |-> [name |-> NewId(strBuf), refName |-> IF r = NullName THEN 0 ELSE NewId(sb1),
                 qualifiers |-> <<>>]]

\* ClClassAddMethParameter -> makeClParameter, then addClParameter: the
\* parameter is appended unless its name, read back from the table, is
\* already in the Section; then the strings just added stay unreferenced.
ClClassAddMethParameter(m, pn, r) ==
    LET mk == makeClParameter(pn, r)
        ps == methods[m].parameters
        i  == ClObjectLocateProperty(mk.sb, ps, CStr(SB!Entry(mk.sb, mk.p.name)))
    IN  /\ Call("Class")
        /\ strBuf' = mk.sb
        /\ IF i = 0
           THEN /\ methods' = [methods EXCEPT ![m].parameters = Append(ps, mk.p)]
                /\ held' = (mk.p.name :> pn)
                             @@ (IF r = NullName THEN <<>> ELSE mk.p.refName :> r) @@ held
                /\ rc' = Ret(Len(ps) + 1)
           ELSE /\ rc' = Ret(i)
                /\ UNCHANGED <<methods, held>>
        /\ UNCHANGED <<kind, arr, props, quals, expect, oob, path, cbits, cquals>>

\* ClClassAddMethParamQualifier(hdr, p, qn, d) -> addClQualifier
ClClassAddMethParamQualifier(m, p, qn, d, mv) ==
    LET o == addClQualifier(methods[m].parameters[p].qualifiers, qn, d, mv)
    IN  /\ Call("Class")
        /\ Apply(o)
        /\ methods' = [methods EXCEPT ![m].parameters[p].qualifiers = o.sect]
        /\ UNCHANGED <<kind, props, quals, expect, oob, path, cbits, cquals>>

(***************************************************************************)
(* ClObjectPathSetHostName, SetNameSpace, SetClassName: a set field is     *)
(* replaced in place (replaceClString keeps the id), an unset one gets a  *)
(* new string, and NULL leaves an unset field nls.  NULL for a set field  *)
(* reaches strlen(NULL) in replaceClStringN and is not called.            *)
(***************************************************************************)
SetPathString(f, v) ==
    /\ Call("ObjectPath")
    /\ v = NullName => path[f] = 0
    /\ CASE path[f] # 0 ->
              /\ strBuf' = SB!ReplaceClStringN(strBuf, path[f], SB!Terminated(v))
              /\ held' = [held EXCEPT ![path[f]] = v]
              /\ UNCHANGED path
         [] v # NullName ->
              /\ strBuf' = AddStr(strBuf, v)
              /\ held' = (NewId(strBuf) :> v) @@ held
              /\ path' = [path EXCEPT ![f] = NewId(strBuf)]
         [] OTHER -> UNCHANGED <<strBuf, held, path>>
    /\ UNCHANGED <<kind, arr, props, quals, expect, rc, oob, cbits, cquals, methods>>

ClObjectPathSetHostName(v) == SetPathString("hostName", v)
ClObjectPathSetNameSpace(v) == SetPathString("nameSpace", v)
ClObjectPathSetClassName(v) == SetPathString("className", v)

\* The property operations of ClObjectProperty, with the ids a new entry
\* stores recorded in the ghost.  Only ClClassAddProperty passes a
\* refName; a CIM key is never an array, so ClObjectPathAddKey gets none.
\* A qualifier declaration has no properties Section.
ObjAddProperty(n, d, r, mv) ==
    /\ kind # "Qualifier"
    /\ AddObjectPropertyH(n, d, r, mv)
    /\ r # NullName => kind = "Class"
    /\ kind = "ObjectPath" => d.type # "array"
    /\ held' = IF Len(props') = Len(props) THEN held
               ELSE LET p == props'[Len(props')]
                    IN  (p.name :> n) @@ (IF r = NullName THEN <<>> ELSE p.refName :> r)
                        @@ held
    /\ UNCHANGED <<path, cbits, cquals, methods, block>>

\* The shape ClObjectLayout needs: the kind, the entry counts of every
\* Section and the used counts of the tables (a table exists once its
\* first entry is added).
Shape ==
    [kind    |-> kind,
     quals   |-> Len(cquals),
     props   |-> [i \in 1 .. Len(props) |-> Len(props[i].qualifiers)],
     methods |-> [m \in 1 .. Len(methods) |->
                   [q |-> Len(methods[m].qualifiers),
                    params |-> [p \in 1 .. Len(methods[m].parameters) |->
                                 Len(methods[m].parameters[p].qualifiers)]]],
     sb      |-> [present |-> Len(strBuf.index) > 0, bUsed |-> Len(strBuf.buf),
                  iUsed |-> Len(strBuf.index)],
     ab      |-> [present |-> arr.present, bUsed |-> Len(arr.buf),
                  iUsed |-> Len(arr.index)]]

\* The object is rebuilt into one block (ClInstanceRebuild and the others)
\* and the receiver of the block relocates it and goes on with the copy:
\* its Array Table is borrowed from the block.  The String Table and the
\* Sections grow correctly when borrowed, so they are unchanged here.
Flatten ==
    /\ ops < MaxOps[kind]
    /\ ops' = ops + 1
    /\ block' = LY!Rebuild(Shape)
    /\ arr' = AB!FlattenArrayBuf(arr)
    /\ UNCHANGED <<kind, strBuf, props, quals, expect, rc, oob,
                   path, cbits, cquals, methods, held>>

Opt(S) == S \union {NullName}

\* The ghost: the qualifier names given so far to the class (<<"class">>),
\* to its i-th property, m-th method or p-th parameter of method m.
Given(e) == IF e \in DOMAIN given THEN given[e] ELSE {}
Give(e, qn) == given' = (e :> (Given(e) \union {qn})) @@ given

ObjNext ==
    \/ \E n \in Names, r \in Opt(RefNames), mv \in BOOLEAN : \E d \in InputData[n] :
         ObjAddProperty(n, d, r, mv) /\ UNCHANGED given
    \/ \E n \in Names, qual \in {"embeddedinstance", "embeddedobject", "other"} :
         /\ ClInstanceAddPropertyQualifierSpecial(n, qual)
         /\ UNCHANGED <<path, cbits, cquals, methods, held, block, given>>
    \/ \E qn \in QualNames, d \in QualInput, mv \in BOOLEAN :
         \/ ClClassAddQualifierSpecial(qn, d, mv) /\ Give(<<"class">>, qn)
         \/ ClQualifierAddQualifier(qn, d, mv) /\ UNCHANGED given
         \/ \E i \in 1 .. Len(props) :
              ClClassAddPropertyQualifierSpecial(i, qn, d, mv) /\ Give(<<"prop", i>>, qn)
         \/ \E m \in 1 .. Len(methods) :
              \/ ClClassAddMethodQualifier(m, qn, d, mv) /\ Give(<<"meth", m>>, qn)
              \/ \E p \in 1 .. Len(methods[m].parameters) :
                   ClClassAddMethParamQualifier(m, p, qn, d, mv) /\ Give(<<"param", m, p>>, qn)
    \/ \E mn \in MethodNames, t \in MethodTypes : ClClassAddMethod(mn, t) /\ UNCHANGED given
    \/ \E m \in 1 .. Len(methods), pn \in ParamNames, r \in Opt(RefNames) :
         ClClassAddMethParameter(m, pn, r) /\ UNCHANGED given
    \/ \E v \in Opt(PathNames) :
         /\ \/ ClObjectPathSetHostName(v)
            \/ ClObjectPathSetNameSpace(v)
            \/ ClObjectPathSetClassName(v)
         /\ UNCHANGED given
    \/ \E id \in GetIds :
         GetPropertyAt(id) /\ UNCHANGED <<path, cbits, cquals, methods, held, block, given>>
    \/ Flatten /\ UNCHANGED given

ObjSpec == ObjInit /\ [][ObjNext]_objVars

-----------------------------------------------------------------------------
ObjTypeOK ==
    /\ TypeOK
    /\ path \in [PathFields -> Nat]
    /\ cbits \subseteq {ClassSpecial[q] : q \in DOMAIN ClassSpecial}
    /\ QualifiersOK(cquals)
    /\ DOMAIN methods = 1 .. Len(methods)
    /\ \A m \in DOMAIN methods :
          LET ps == methods[m].parameters
          IN  /\ methods[m].name \in Nat /\ methods[m].type \in MethodTypes
              /\ QualifiersOK(methods[m].qualifiers)
              /\ DOMAIN ps = 1 .. Len(ps)
              /\ \A p \in DOMAIN ps : /\ ps[p].name \in Nat /\ ps[p].refName \in Nat
                                     /\ QualifiersOK(ps[p].qualifiers)
    /\ DOMAIN held \subseteq 1 .. Len(strBuf.index)
    /\ block \in [alloc : Nat, used : Nat, regs : Seq([at : Nat, n : Nat])]

\* The String Table ids a qualifier Section refers to: the names, and the
\* values of non-null chars qualifiers.
QualIds(qs) ==
    {qs[k].name : k \in DOMAIN qs}
    \union {qs[k].data.v : k \in {j \in DOMAIN qs : qs[j].data.type = "chars"
                                                 /\ ~qs[j].data.null}}

\* Every String Table id the object stores outside property values: the
\* constructor's strings, the path fields, and the names, refNames and
\* qualifier ids of every property, method and parameter.
StoredIds ==
    LET params == UNION {{methods[m].parameters[p] : p \in DOMAIN methods[m].parameters}
                         : m \in DOMAIN methods}
    IN  (1 .. Len(CtorStrings(kind)))
        \union {path[f] : f \in {g \in PathFields : path[g] # 0}}
        \union {props[i].name : i \in DOMAIN props}
        \union {props[i].refName : i \in {j \in DOMAIN props : props[j].refName # 0}}
        \union QualIds(cquals)
        \union UNION {QualIds(props[i].qualifiers) : i \in DOMAIN props}
        \union UNION {{methods[m].name} \union QualIds(methods[m].qualifiers)
                      : m \in DOMAIN methods}
        \union UNION {{q.name} \union QualIds(q.qualifiers)
                      \union (IF q.refName = 0 THEN {} ELSE {q.refName}) : q \in params}

\* Every name, refName and qualifier string the object stores reads back,
\* through ClObjectGetClString, as the bytes the call that stored it gave
\* (or the last ClObjectPathSet* of that field): no later addClString,
\* replaceClString of a path field or property value, or removeClObject
\* compaction moves another entry's bytes under the id.
StringIdsResolve ==
    \A id \in StoredIds :
        /\ id \in DOMAIN held
        /\ ValidId(strBuf, id)
        /\ CStr(SB!Entry(strBuf, id)) = held[id]

\* Size exactness of the flatten: the rebuild of the object writes every
\* region inside the block ClSize* allocated, no two regions overlap, and
\* the copies end exactly where the size computation said (the class
\* guard bytes apart): sizeX and copyX agree for every Section and table.
RebuildExact ==
    LET r  == block.regs
        ks == {k \in DOMAIN r : r[k].n > 0}
    IN  block # NoBlock =>
            /\ block.used + LY!Extra(kind) = block.alloc
            /\ \A k \in ks : r[k].at + r[k].n <= block.alloc
            /\ \A j, k \in ks : j # k => r[j].at + r[j].n <= r[k].at \/ r[k].at + r[k].n <= r[j].at

\* What a client means to receive for the value v of a property of type t:
\* the string (its CDATA sections passed as markup), the number, the
\* array's elements, or null.
Meant(t, v) ==
    IF v = NullRead THEN NullRead
    ELSE CASE t \in {"chars", "string"} -> XG!Intended(v)
           [] t = "uint32" -> XG!ScalarNum(v)
           [] t = "array" -> v

\* A client parsing the CIM-XML of the object (instance2xml for an
\* Instance, args2xml for an ArgumentList, keyBinding2xml for the keys of
\* an ObjectPath) reads back every string, scalar and array value, and
\* every null, that GetPropertyAt / GetArgAt / GetKeyAt return after any
\* sequence of calls: XMLEscape leaves no bare markup byte, and the
\* String Table hands the renderer the right bytes.  Keys are never null.
XmlValuesReadBack ==
    kind # "Class" =>
    \A i \in DOMAIN props :
        LET d == props[i].data
            v == ReadValue(strBuf, arr, d)
        IN  (d.type \in XG!RenderedTypes /\ v # Garbage /\ ~(kind = "ObjectPath" /\ d.null))
                => XG!ReadElement(XG!PropertyXml(kind, d.type, d.null, v), NullRead)
                     = [ok |-> TRUE, val |-> Meant(d.type, v)]



\* How a client names a qualifier element: CIM names are compared without
\* case, so "key" in a Section is the Key that quals2xml writes; the names
\* the code tests with strcasecmp are their special names.
Label(n) ==
    IF n \in DOMAIN ClassSpecial THEN ClassSpecial[n]
    ELSE IF n \in DOMAIN PropSpecial THEN PropSpecial[n] ELSE ToString(n)

\* The names in a qualifiers Section, in its order, as a client names them.
SectNames(qs) == [k \in DOMAIN qs |-> Label(CStr(SB!Entry(strBuf, qs[k].name)))]

\* The qualifier elements of the Class's CIM-XML (cls2xml with
\* FL_includeQualifiers), as names.
ClassXml ==
    XG!cls2xml(TRUE, cbits, SectNames(cquals), quals,
               [i \in DOMAIN props |-> SectNames(props[i].qualifiers)],
               [m \in DOMAIN methods |-> SectNames(methods[m].qualifiers)],
               [m \in DOMAIN methods |->
                  [p \in DOMAIN methods[m].parameters |->
                     SectNames(methods[m].parameters[p].qualifiers)]])

\* An element list shows exactly the qualifiers in the set want, each once.
ShowsOnce(xs, want) ==
    /\ {xs[k] : k \in DOMAIN xs} = want
    /\ Len(xs) = Cardinality(want)

\* The CIM-XML of a Class (GetClass, EnumClasses with IncludeQualifiers)
\* shows every qualifier a caller gave it, once, where it was given: on the
\* class, a property, a method or a parameter.  Key, EmbeddedObject and
\* EmbeddedInstance on a property live only as ClProperty quals bits, and
\* Abstract, Association and Indication as ClClass.quals bits, given on
\* the class or (the scope CIM gives them aside) through a property, while
\* a qualifier of the same name elsewhere is an ordinary Section entry.
ClassXmlQualifiers ==
    LET x == ClassXml
        cls == {n \in UNION {Given(<<"prop", i>>) : i \in DOMAIN props} : n \in DOMAIN ClassSpecial}
    IN  kind = "Class" =>
          /\ ShowsOnce(x.quals, {Label(n) : n \in Given(<<"class">>) \union cls})
          /\ \A i \in DOMAIN props :
               ShowsOnce(x.props[i], {Label(n) : n \in Given(<<"prop", i>>) \ DOMAIN ClassSpecial})
          /\ \A m \in DOMAIN methods :
               /\ ShowsOnce(x.methods[m].quals, {Label(n) : n \in Given(<<"meth", m>>)})
               /\ \A p \in DOMAIN methods[m].parameters :
                    ShowsOnce(x.methods[m].params[p].quals, {Label(n) : n \in Given(<<"param", m, p>>)})

=============================================================================
