----------------------------- MODULE ClassService -----------------------------
(***************************************************************************)
(* What the class provider promises its clients, with no cache: GetClass,  *)
(* EnumClasses and EnumClassNames answer from the class store, every class *)
(* fully resolved (its own members and those of all its ancestors), its    *)
(* Abstract qualifier its own.  A class whose ancestor chain names a       *)
(* superclass the store lacks resolves to the error INVALID_SUPERCLASS.    *)
(* EnumClassNames without a class name may ask for association classes    *)
(* only (r.arg = "assocsOnly").  The InvokeMethod requests answer names:  *)
(* the children of a class, its descendants that may be served from the   *)
(* repository, the top-level associations, and whether one class descends *)
(* from another.                                                           *)
(* listnamespaces names the namespace, _startup only acknowledges, any    *)
(* other method is not found.  Creating, modifying or deleting a class is  *)
(* not supported.  A namespace whose store is malformed is absent: every   *)
(* other request answers INVALID_NAMESPACE.                                *)
(* ClassRegister implements this specification.                           *)
(***************************************************************************)
EXTENDS Naturals, FiniteSets, Sequences

CONSTANTS
    Classes,    \* the class names of the store
    Parent,     \* class -> its superclass name, or NoParent
    NoParent,   \* model value: no superclass
    Own,        \* class -> the properties its own declaration introduces
    OwnParams,  \* class -> the <<method, parameter>> pairs it declares
    OwnParamQuals, \* class -> the <<method, parameter, qualifier>> it declares
    Abstract,   \* the classes qualified Abstract
    Providers,  \* the classes an instance provider is registered for
    Assocs,     \* the association classes
    FilterClasses, \* CIM_IndicationFilter/CIM_IndicationSubscription
    Requests,   \* the requests clients send
    Stores      \* the classSchemas files the namespace may hold

VARIABLES
    reply,      \* [req, result] of the last request answered
    store       \* the namespace's classSchemas: a sequence of records

\* A well-formed store: one version record first, in this host's byte
\* order, with the id "sfcb-rep" and the supported object implementation
\* level; then whole class records only.  Anything else (a foreign-endian,
\* wrong-level or id-less store, a truncated or non-class record) makes
\* the whole namespace absent.
Accepted(s) ==
    /\ Len(s) >= 1
    /\ s[1].t = "version" /\ s[1].fmt = "native" /\ s[1].id = "sfcb-rep" /\ s[1].level
    /\ \A i \in 2 .. Len(s) : s[i].t = "class" /\ s[i].whole

\* The ancestors of c that the store holds, nearest first, and whether the
\* chain reaches a root without naming a missing class.
RECURSIVE Chain(_)
Chain(c) ==
    IF Parent[c] = NoParent THEN [cls |-> {c}, ok |-> TRUE]
    ELSE IF Parent[c] \notin Classes THEN [cls |-> {c}, ok |-> FALSE]
    ELSE LET up == Chain(Parent[c])
         IN  [cls |-> {c} \union up.cls, ok |-> up.ok]

\* The class c as a client should see it: the members of every ancestor,
\* the parameters of its methods with their qualifiers (IN, OUT, ...).
Resolved(c) ==
    [name |-> c, parent |-> Parent[c],
     props |-> UNION {Own[a] : a \in Chain(c).cls},
     params |-> UNION {OwnParams[a] : a \in Chain(c).cls},
     pquals |-> UNION {OwnParamQuals[a] : a \in Chain(c).cls},
     abstract |-> c \in Abstract]

Children(c) == {k \in Classes : Parent[k] = c}

RECURSIVE Descendants(_)
Descendants(c) == Children(c) \union UNION {Descendants(k) : k \in Children(c)}

Roots == {c \in Classes : Parent[c] = NoParent}

\* The classes a request names: all (deep) or the roots, without a class
\* name; the children or all descendants of the class named.
Selected(r) ==
    IF r.cn = NoParent THEN IF r.deep THEN Classes ELSE Roots
    ELSE IF r.deep THEN Descendants(r.cn) ELSE Children(r.cn)

\* A result is an error code ("OK" or the CMPI error) with the set of
\* classes (GetClass, EnumClasses) or of class names (EnumClassNames).
Result(err, set) == [rc |-> err, objs |-> set, names |-> {}]
NamesResult(err, set) == [rc |-> err, objs |-> {}, names |-> set]

\* A class whose instances the repository serves: not a filter or
\* subscription class, not Abstract, and no provider for it or an ancestor.
Candidate(c) ==
    /\ c \notin FilterClasses
    /\ c \notin Abstract
    /\ \A a \in Chain(c).cls : a \notin Providers

\* The only namespace of the model, as listnamespaces names it.
ThisNamespace == "ns"

\* The InvokeMethod requests; r.arg is the child for ischild and, for
\* getallchildren, the argument naming the class ("classignoreprov" lists
\* every descendant).
MethodAnswer(r) ==
    CASE r.op = "getchildren" -> NamesResult("OK", Children(r.cn))
      [] r.op = "getallchildren" ->
           NamesResult("OK", {d \in Descendants(r.cn) :
                                r.arg = "classignoreprov" \/ Candidate(d)})
      [] r.op = "getassocs" ->
           NamesResult("OK", {c \in Assocs : Parent[c] = NoParent})
      [] r.op = "ischild" ->
           NamesResult(IF r.arg \in Descendants(r.cn) THEN "OK" ELSE "FAILED", {})
      [] r.op = "listnamespaces" ->
           IF r.arg = NoParent THEN NamesResult("OK", {ThisNamespace})
           ELSE NamesResult(IF r.arg = ThisNamespace THEN "OK" ELSE "NOT_FOUND", {})
      [] r.op = "_startup" -> NamesResult("OK", {})
      [] OTHER -> NamesResult("METHOD_NOT_FOUND", {})

StoreAnswer(r) ==
    CASE r.op = "GetClass" ->
           IF r.cn \notin Classes THEN Result("NOT_FOUND", {})
           ELSE IF ~Chain(r.cn).ok THEN Result("INVALID_SUPERCLASS", {})
           ELSE Result("OK", {Resolved(r.cn)})
      [] r.op = "EnumClasses" ->
           IF r.cn # NoParent /\ r.cn \notin Classes THEN Result("INVALID_CLASS", {})
           ELSE IF \E c \in Selected(r) : ~Chain(c).ok
           THEN Result("INVALID_SUPERCLASS", {})
           ELSE Result("OK", {Resolved(c) : c \in Selected(r)})
      [] r.op = "EnumClassNames" ->
           IF r.cn # NoParent /\ r.cn \notin Classes THEN NamesResult("INVALID_CLASS", {})
           ELSE IF r.cn = NoParent /\ r.arg = "assocsOnly"
           THEN NamesResult("OK", Selected(r) \cap Assocs)
           ELSE NamesResult("OK", Selected(r))
      [] OTHER -> MethodAnswer(r)

\* The requests that would change the schema.
ModifyOps == {"CreateClass", "SetClass", "DeleteClass"}

NoRequest == [op |-> "none", cn |-> NoParent, deep |-> FALSE, arg |-> NoParent]

Answer(r) ==
    IF r.op \in ModifyOps THEN Result("NOT_SUPPORTED", {})
    ELSE IF Accepted(store) THEN StoreAnswer(r) ELSE Result("INVALID_NAMESPACE", {})

Init ==
    /\ store \in Stores
    /\ reply = [req |-> NoRequest, result |-> Result("OK", {})]

Serve(r) == reply' = [req |-> r, result |-> Answer(r)] /\ UNCHANGED store

Next == \E r \in Requests : Serve(r)

Spec == Init /\ [][Next]_<<reply, store>>

=============================================================================
