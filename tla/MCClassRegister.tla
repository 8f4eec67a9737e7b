--------------------------- MODULE MCClassRegister ---------------------------
(* Model-checking instance of ClassRegister: a chain A <- B <- C, each     *)
(* class declaring one property, caches of capacity 2 so that resolving C  *)
(* (three records) evicts.                                                 *)
EXTENDS ClassRegister

MCClasses == {"A", "B", "C"}
MCParent == [c \in MCClasses |-> CASE c = "A" -> NoParent
                                   [] c = "B" -> "A"
                                   [] c = "C" -> "B"]
MCOwn == [c \in MCClasses |-> {"p" \o c}]

\* A declares method m(x); B overrides m and adds the parameter y; C adds
\* nothing: the resolved B and C list both parameters.
MCOwnParams == [c \in MCClasses |-> CASE c = "A" -> {<<"m", "x">>}
                                       [] c = "B" -> {<<"m", "x">>, <<"m", "y">>}
                                       [] c = "C" -> {}]

\* No parameter qualifiers.
MCNoParamQuals == [c \in MCClasses |-> {}]

\* A qualifies x with IN, B qualifies y with OUT.
MCParamQuals == [c \in MCClasses |-> CASE c = "A" -> {<<"m", "x", "IN">>}
                                        [] c = "B" -> {<<"m", "y", "OUT">>}
                                        [] c = "C" -> {}]
MCRecordOrder == <<"C", "A", "B">>

\* The root is Abstract: the qualifier must not reach B or C.
MCAbstract == {"A"}

\* B is Abstract itself: its resolved class must keep the qualifier.
MCAbstractB == {"B"}

\* B names a superclass the store does not hold.
MCParentMissing == [c \in MCClasses |-> CASE c = "A" -> NoParent
                                          [] c = "B" -> "X"
                                          [] c = "C" -> "B"]

Req(op, cn, deep) == [op |-> op, cn |-> cn, deep |-> deep, arg |-> NoParent]
Method(op, cn, arg) == [op |-> op, cn |-> cn, deep |-> FALSE, arg |-> arg]

\* An instance provider serves C; A is the only association.
MCProviders == {"C"}
MCAssocs == {"A"}

MCRequests ==
    {Req("GetClass", c, FALSE) : c \in MCClasses}
    \union {Req("EnumClasses", NoParent, d) : d \in BOOLEAN}
    \union {Req("EnumClasses", "A", d) : d \in BOOLEAN}
    \union {Req("EnumClassNames", NoParent, TRUE), Req("EnumClassNames", "B", FALSE)}
    \union {[op |-> "EnumClassNames", cn |-> NoParent, deep |-> d, arg |-> "assocsOnly"] : d \in BOOLEAN}
    \union {Method("getallchildren", c, a) : c \in {"A", "B"}, a \in {"class", "classignoreprov"}}
    \union {Method("getchildren", "A", NoParent), Method("getassocs", NoParent, NoParent),
            Method("ischild", "A", "C"), Method("ischild", "B", "A")}
    \union {Method("listnamespaces", NoParent, a) : a \in {NoParent, "ns", "other"}}
    \union {Method("_startup", NoParent, NoParent), Method("nosuchmethod", NoParent, NoParent),
            Req("CreateClass", "A", FALSE), Req("DeleteClass", "A", FALSE)}

\* Records of classSchemas.  A version record: byte order, id, whether the
\* object implementation level is the supported one, the reduced option.
VRec(fmt, id, level, red) ==
    [t |-> "version", name |-> NoParent, whole |-> TRUE,
     fmt |-> fmt, id |-> id, level |-> level, red |-> red, hdr |-> FALSE]
Rec(t, c, whole) ==
    [t |-> t, name |-> c, whole |-> whole,
     fmt |-> "native", id |-> "none", level |-> FALSE, red |-> FALSE, hdr |-> FALSE]
CRec(c) == Rec("class", c, TRUE)

\* A full and a reduced store, the latter in another record order and
\* with a DMY_ record.
Full == <<VRec("native", "sfcb-rep", TRUE, FALSE), CRec("A"), CRec("B"), CRec("C")>>
Reduced == <<VRec("native", "sfcb-rep", TRUE, TRUE), CRec("C"), CRec(Dummy),
             CRec("A"), CRec("B")>>
MCGoodStores == {Full, Reduced}

\* Stores the loader rejects: foreign byte order, a wrong id, an
\* unsupported level, a record that is no class record, a truncated body.
MCBadStores ==
    {<<VRec("swapped", "sfcb-rep", TRUE, FALSE), CRec("A")>>,
     <<VRec("native", "other", TRUE, FALSE), CRec("A")>>,
     <<VRec("native", "sfcb-rep", FALSE, FALSE), CRec("A")>>,
     <<VRec("native", "sfcb-rep", TRUE, TRUE), CRec("A"), Rec("other", NoParent, TRUE)>>,
     <<VRec("native", "sfcb-rep", TRUE, FALSE), CRec("A"), Rec("class", "B", FALSE)>>}

MCStores == MCGoodStores \union MCBadStores

\* Stores the loader accepts although they are not well formed: no version
\* record (the first class record is taken by the level check's
\* "continue"), an empty file, and a store whose last header is cut short
\* (the read loop ends as at end of file).
MCLaxStores ==
    {<<CRec("A"), CRec("B"), CRec("C")>>, <<>>,
     <<VRec("native", "sfcb-rep", TRUE, FALSE), CRec("A"), CRec("B"), CRec("C"),
       Rec("tail", NoParent, FALSE)>>}

\* A reduced store in which B's record is an HDR_Class (already resolved) one.
MCHdrStores ==
    {<<VRec("native", "sfcb-rep", TRUE, TRUE), CRec("C"), CRec("A"),
       [CRec("B") EXCEPT !.hdr = TRUE]>>}

\* Every store the loader meets: well formed, rejected, or accepted though
\* malformed.
MCAllStores == MCStores \union MCLaxStores \union MCHdrStores
=============================================================================
