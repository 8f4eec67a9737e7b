----------------------------- MODULE LocalInvoke -----------------------------
(***************************************************************************)
(* invokeMethod of the local client (cimcClientSfcbLocal.c) and the        *)
(* conversion of its IN arguments to the types the class declares:        *)
(* convertFromStringArguments, and convertFromStringValue, which only a    *)
(* build with SFCB_DEBUG compiles (in any other build _SFCB_TRACE_VAR      *)
(* drops the statement it wraps, the conversion and its CMAddArg).         *)
(* A type is its CMPI code (cmpidt.h), tested bit by bit as the code      *)
(* does.  A text is a sequence of one-character strings.  The broker's    *)
(* side of the call (the class getClass gets, the provider context) is an *)
(* input; the provider's answer is not modelled.                          *)
(***************************************************************************)
EXTENDS Naturals, Sequences, Bitwise, TLC
LOCAL INSTANCE SequencesExt

CONSTANTS
    SFCB_DEBUG, \* the build defines SFCB_DEBUG
    Calls,      \* the invokeMethod calls a client makes, with the broker's answers
    NoClass,    \* model value: getClass returned NULL
    NoParam,    \* model value: no parameter of the method has the name
    NULLP       \* model value: a char* that is NULL

VARIABLES
    call,       \* the call
    out         \* its outcome: [st |-> "pending" | "crash" | "error" | "sent", ...]

vars == <<call, out>>

\* The CMPI type codes of cmpidt.h the model uses.
CMPI_null == 0
CMPI_boolean == 2
CMPI_uint8 == 128
CMPI_uint16 == 144
CMPI_instance == 4096
CMPI_ref == 4352
CMPI_string == 5632
CMPI_chars == 5888
CMPI_ARRAY == 8192

IsArray(t) == (t & CMPI_ARRAY) # 0
ElemOf(t) == t ^^ CMPI_ARRAY
Bits == CMPI_uint8 :> 8 @@ CMPI_uint16 :> 16

\* strcasecmp's view of a text.
UC == <<"A","B","C","D","E","F","G","H","I","J","K","L","M","N","O","P","Q","R","S","T","U","V","W","X","Y","Z">>
LC == <<"a","b","c","d","e","f","g","h","i","j","k","l","m","n","o","p","q","r","s","t","u","v","w","x","y","z">>
Lower(c) == IF \E i \in DOMAIN UC : UC[i] = c THEN LC[CHOOSE i \in DOMAIN UC : UC[i] = c] ELSE c
Fold(s) == [i \in DOMAIN s |-> Lower(s[i])]

\* The value of a digit in bases up to 16; 99 for any other character.
HexDigits == <<"0","1","2","3","4","5","6","7","8","9","a","b","c","d","e","f">>
DigitVal(c) == IF \E i \in DOMAIN HexDigits : HexDigits[i] = Lower(c)
               THEN (CHOOSE i \in DOMAIN HexDigits : HexDigits[i] = Lower(c)) - 1
               ELSE 99
Positional(s, b) == FoldLeft(LAMBDA a, c : a * b + DigitVal(c), 0, s)

\* The first index from i on whose character is not in D (Len(s) + 1 if none).
StopAt(s, i, D) == Min({j \in i .. Len(s) + 1 : j > Len(s) \/ s[j] \notin D})

\* strtoul(s, &end, 0), reduced modulo 2^w, in its phases: blanks, a sign,
\* the base from the prefix (0x and a hex digit: 16; 0: 8; else 10), the
\* longest run of digits.  end is where the parse stopped, the start of s
\* when no digit was read.  A minus sign negates the value modulo 2^64.
StrtoulDigits(s, w, neg, base, i2, i3) ==
    LET mag == Positional(SubSeq(s, i2, i3 - 1), base) % 2^w
    IN  [v   |-> IF neg THEN (2^w - mag) % 2^w ELSE mag,
         end |-> IF i3 = i2 THEN 1 ELSE i3]

StrtoulBase(s, w, neg, i1, hex) ==
    LET base == IF hex THEN 16 ELSE IF i1 <= Len(s) /\ s[i1] = "0" THEN 8 ELSE 10
        i2   == IF hex THEN i1 + 2 ELSE i1
    IN  StrtoulDigits(s, w, neg, base, i2, StopAt(s, i2, {c \in Range(s) : DigitVal(c) < base}))

StrtoulSign(s, w, i0) ==
    LET i1 == IF i0 <= Len(s) /\ s[i0] \in {"+", "-"} THEN i0 + 1 ELSE i0
    IN  StrtoulBase(s, w, i0 <= Len(s) /\ s[i0] = "-", i1,
                    i1 + 2 <= Len(s) /\ s[i1] = "0" /\ Lower(s[i1 + 1]) = "x"
                      /\ DigitVal(s[i1 + 2]) < 16)

Strtoul(s, w) == StrtoulSign(s, w, StopAt(s, 1, {" "}))

OK == "OK"
INVALID == "INVALID_PARAMETER"
Crash == [v |-> 0, rc |-> "SIGSEGV"]

\* convertFromStringValue(strcval, strctype, xtype, prc): the value and the
\* status.  A failed parse is one that stopped before the end of the text
\* (*scheck); strtoul or strcasecmp on a NULL text crashes.
RECURSIVE convertFromStringValue(_, _, _), ConvertElems(_, _, _, _)
convertFromStringValue(v, st, xt) ==
    LET sval == IF st \in {CMPI_chars, CMPI_string} THEN v ELSE NULLP
        one  == convertFromStringValue(v, st, ElemOf(xt))
    IN  IF ~IsArray(xt) /\ IsArray(st) THEN [v |-> 0, rc |-> INVALID]
        ELSE CASE xt = CMPI_string -> [v |-> sval, rc |-> OK]
               [] xt \in DOMAIN Bits /\ sval = NULLP -> Crash
               [] xt \in DOMAIN Bits ->
                    LET r == Strtoul(sval, Bits[xt])
                    IN  [v |-> r.v, rc |-> IF r.end <= Len(sval) THEN INVALID ELSE OK]
               [] xt = CMPI_boolean /\ sval = NULLP -> Crash
               [] xt = CMPI_boolean ->
                    CASE Fold(sval) = <<"f","a","l","s","e">> -> [v |-> 0, rc |-> OK]
                      [] Fold(sval) = <<"t","r","u","e">> -> [v |-> 1, rc |-> OK]
                      [] OTHER -> [v |-> 0, rc |-> IF sval = <<>> THEN OK ELSE INVALID]
               [] IsArray(xt) /\ ~IsArray(st) ->
                    IF one.rc = OK THEN [v |-> <<one.v>>, rc |-> OK] ELSE one
               [] IsArray(xt) -> ConvertElems(v, ElemOf(st), ElemOf(xt), <<>>)
               [] OTHER -> [v |-> 0, rc |-> INVALID]

\* The loop over the elements of an array value: it stops at the first
\* element that fails.
ConvertElems(es, st, xt, acc) ==
    IF es = <<>> THEN [v |-> acc, rc |-> OK]
    ELSE LET c == convertFromStringValue(Head(es), st, xt)
         IN  IF c.rc = OK THEN ConvertElems(Tail(es), st, xt, Append(acc, c.v)) ELSE c

\* The parameter of the method whose name strcasecmp matches n.
ParamOf(params, n) ==
    IF \E p \in DOMAIN params : Fold(p) = Fold(n)
    THEN CHOOSE p \in DOMAIN params : Fold(p) = Fold(n) ELSE NoParam

\* One pass of the loop of convertFromStringArguments over argument a,
\* with acc = [args (argsnew), rc (*prc), err (left by goto error2)].
\* A type with the CMPI_ref bits set is taken for a reference; a type with
\* a bit of CMPI_chars or CMPI_string for a string.
ArgStep(params, vmpt, acc, a) ==
    LET p     == ParamOf(params, a.name)
        t     == a.type
        pt    == params[p]
        copy  == [acc EXCEPT !.args = Append(@, a)]
        as(v) == [acc EXCEPT !.args = Append(@, [name |-> a.name, type |-> pt, v |-> v])]
        fail(rc) == [acc EXCEPT !.rc = rc, !.err = TRUE]
        c     == convertFromStringValue(a.v, t, pt)
    IN  IF acc.err THEN acc
        ELSE CASE p = NoParam \/ t = CMPI_null -> IF vmpt THEN fail(acc.rc) ELSE copy
               [] t = pt -> copy
               [] (t & CMPI_ref) = CMPI_ref ->
                    CASE ~IsArray(t) /\ IsArray(pt) -> as(<<a.v>>)
                      [] IsArray(t) /\ ~IsArray(pt) -> fail(INVALID)
                      [] OTHER -> copy
               [] (t & CMPI_chars) = 0 /\ (t & CMPI_string) = 0 ->
                    IF vmpt THEN fail(acc.rc) ELSE copy
               [] ~SFCB_DEBUG -> acc
               [] c.rc = Crash.rc -> fail(c.rc)
               [] c.rc # OK -> IF vmpt THEN fail(c.rc) ELSE copy
               [] OTHER -> as(c.v)

\* convertFromStringArguments(cls, method, argsin, prc): the arguments
\* invokeMethod sends and the status.  Without the class or the method it
\* returns argsin; after goto error2 too, with the status as it is.
convertFromStringArguments(cls, method, argsin, vmpt, rc0) ==
    LET ms == {m \in DOMAIN cls : Fold(m) = Fold(method)}
        r  == FoldLeft(LAMBDA acc, a : ArgStep(cls[CHOOSE m \in ms : TRUE], vmpt, acc, a),
                       [args |-> <<>>, rc |-> rc0, err |-> FALSE], argsin)
    IN  IF cls = NoClass \/ ms = {} THEN [args |-> argsin, rc |-> rc0]
        ELSE [args |-> IF r.err THEN argsin ELSE r.args, rc |-> r.rc]

\* invokeMethod: getClass (rc OK, or the broker's status when the class is
\* not found), the conversion, CMRelease(tcls), and, while rc is OK, the
\* provider context; MSG_X_PROVIDER sends the converted arguments.  A NULL
\* rc never passes the test, so nothing is sent.
InvokeOutcome(c) ==
    LET rc1  == IF c.cls = NoClass THEN c.clsRc ELSE OK
        conv == convertFromStringArguments(c.cls, c.method, c.args, c.vmpt, rc1)
    IN  CASE conv.rc = Crash.rc \/ c.cls = NoClass -> [st |-> "crash"]
          [] ~c.rcPtr \/ conv.rc # OK -> [st |-> "error", rc |-> conv.rc]
          [] c.irc # "MSG_X_PROVIDER" -> [st |-> "error", rc |-> c.irc]
          [] OTHER -> [st |-> "sent", args |-> conv.args]

Init ==
    /\ call \in Calls
    /\ out = [st |-> "pending"]

InvokeMethod ==
    /\ out.st = "pending"
    /\ out' = InvokeOutcome(call)
    /\ UNCHANGED call

Spec == Init /\ [][InvokeMethod]_vars

-----------------------------------------------------------------------------
\* What a client means by a text for a parameter of a numeric or boolean
\* type (the CIM literals): a decimal, 0x-hexadecimal or 0-octal numeral
\* of a value the type holds, or true/false in any case; NoParam if none.
Denotes(s, t) ==
    LET L == Len(s)
        in(D, i, j) == \A k \in i .. j : DigitVal(s[k]) < D
        n == CASE L > 0 /\ in(10, 1, L) /\ (s[1] # "0" \/ L = 1) -> Positional(s, 10)
               [] L > 2 /\ s[1] = "0" /\ Lower(s[2]) = "x" /\ in(16, 3, L) ->
                    Positional(SubSeq(s, 3, L), 16)
               [] L > 1 /\ s[1] = "0" /\ in(8, 2, L) -> Positional(SubSeq(s, 2, L), 8)
               [] OTHER -> NoParam
    IN  CASE t = CMPI_boolean /\ Fold(s) = <<"t","r","u","e">> -> 1
          [] t = CMPI_boolean /\ Fold(s) = <<"f","a","l","s","e">> -> 0
          [] t \in DOMAIN Bits /\ n # NoParam /\ n < 2^Bits[t] -> n
          [] OTHER -> NoParam

\* invokeMethod either fails with a status or reaches the provider with the
\* arguments as the class declares them: a string argument for a numeric
\* or boolean parameter arrives as the value its text denotes, with the
\* declared type, and never with that type when the text denotes none.
\* (convertFromStringArguments and convertFromStringValue, and the
\* CMRelease of the class getClass returned.)
InvokedAsDeclared ==
    /\ out.st # "crash"
    /\ out.st = "sent" =>
         \A k \in DOMAIN call.args :
           LET a  == call.args[k]
               ms == {m \in DOMAIN call.cls : Fold(m) = Fold(call.method)}
               ps == call.cls[CHOOSE m \in ms : TRUE]
               p  == ParamOf(ps, a.name)
               w  == Denotes(a.v, ps[p])
               got == {b \in Range(out.args) : b.name = a.name}
           IN  (ms # {} /\ p # NoParam /\ a.type \in {CMPI_chars, CMPI_string}
                  /\ ps[p] \in DOMAIN Bits \union {CMPI_boolean})
                 => IF w # NoParam
                    THEN \E b \in got : b.type = ps[p] /\ b.v = w
                    ELSE \A b \in got : b.type # ps[p]
=============================================================================
