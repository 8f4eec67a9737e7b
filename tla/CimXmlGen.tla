------------------------------ MODULE CimXmlGen ------------------------------
(***************************************************************************)
(* The CIM-XML rendering of object values (cimXmlGen.c): XMLEscape, the   *)
(* text of one value (value2xml), the element of one property, argument or *)
(* key (data2xml, instance2xml, args2xml, keyBinding2xml), and an XML      *)
(* reader: what a client parsing the response gets back from the text.    *)
(*                                                                         *)
(* Text is a sequence of bytes (ASCII codes).  Markup (tag and attribute  *)
(* names, the NAME and TYPE attributes, new lines) is abstracted to the   *)
(* fields of an element record; the character data of each <VALUE> is    *)
(* kept byte for byte, since that is where escaping matters.              *)
(***************************************************************************)
LOCAL INSTANCE Naturals
LOCAL INSTANCE Sequences
LOCAL INSTANCE SequencesExt

\* The bytes XMLEscape treats specially.
LT == 60
GT == 62
AMP == 38
QUOT == 34
APOS == 39
BANG == 33

\* "<![CDATA[" and "]]>"
CdataStart == <<60, 33, 91, 67, 68, 65, 84, 65, 91>>
CdataEnd == <<93, 93, 62>>

\* The replacement of each escaped byte: &gt; &lt; &amp; &quot; &apos;
Entity == [c \in {GT, LT, AMP, QUOT, APOS} |->
             CASE c = GT   -> <<38, 103, 116, 59>>
               [] c = LT   -> <<38, 108, 116, 59>>
               [] c = AMP  -> <<38, 97, 109, 112, 59>>
               [] c = QUOT -> <<38, 113, 117, 111, 116, 59>>
               [] c = APOS -> <<38, 97, 112, 111, 115, 59>>]

\* strstr(&s[i], "]]>"): the first position at or after i where "]]>"
\* starts, or 0.
EndMarkAt(s, i) ==
    LET hits == {j \in i .. Len(s) - 2 : SubSeq(s, j, j + 2) = CdataEnd}
    IN  IF hits = {} THEN 0 ELSE CHOOSE j \in hits : \A k \in hits : j <= k

\* Faulty variant of CdataSkip: the length of the section stops before the
\* '>' of "]]>" (n = end - rep + 2).
CdataSkipShort(s, i) ==
    IF /\ i + 1 <= Len(s) /\ s[i + 1] = BANG
       /\ Len(s) - (i - 1) > 11
       /\ IsPrefix(CdataStart, SubSeq(s, i, Len(s)))
       /\ EndMarkAt(s, i) # 0
    THEN EndMarkAt(s, i) - i + 2
    ELSE 0

\* The CDATA test of XMLEscape at the '<' in position i (1-based; the C
\* index is i - 1): the next byte is '!', more than 11 bytes remain, they
\* start with "<![CDATA[" and a "]]>" follows.  Its value is n, the
\* length of the section copied unchanged, or 0.
CdataSkip(s, i) ==
    IF /\ i + 1 <= Len(s) /\ s[i + 1] = BANG
       /\ Len(s) - (i - 1) > 11
       /\ IsPrefix(CdataStart, SubSeq(s, i, Len(s)))
       /\ EndMarkAt(s, i) # 0
    THEN EndMarkAt(s, i) - i + 3
    ELSE 0

\* The loop of XMLEscape from position i: a CDATA section is copied as it
\* is, the five special bytes are replaced, every other byte is copied.
RECURSIVE EscapeFrom(_, _)
EscapeFrom(s, i) ==
    IF i > Len(s) THEN <<>>
    ELSE IF s[i] = LT /\ CdataSkip(s, i) > 0
    THEN SubSeq(s, i, i + CdataSkip(s, i) - 1) \o EscapeFrom(s, i + CdataSkip(s, i))
    ELSE IF s[i] \in DOMAIN Entity
    THEN Entity[s[i]] \o EscapeFrom(s, i + 1)
    ELSE <<s[i]>> \o EscapeFrom(s, i + 1)

\* XMLEscape(in, &outlen) on the C string s (its bytes before the NUL); a
\* NULL input (null) gives NULL, which value2xml appends nothing for.
XMLEscape(s, null) == IF null THEN <<>> ELSE EscapeFrom(s, 1)

\* sprintf(str, "%llu", ul): the decimal digits of n.
RECURSIVE Decimal(_)
Decimal(n) == IF n < 10 THEN <<48 + n>> ELSE Decimal(n \div 10) \o <<48 + (n % 10)>>

\* A scalar of the object model is the bytes of its CMPIValue, least
\* significant first.
ScalarNum(v) == FoldRight(LAMBDA b, acc : b + 256 * acc, v, 0)

\* dataType() for the types the objects carry; chars and CMPI_string are
\* both "string".
dataType(t) ==
    CASE t \in {"chars", "string"} -> "string"
      [] t = "uint32" -> "uint32"
      [] t = "dateTime" -> "datetime"
      [] t = "ref" -> "*"
      [] t = "instance" -> "%"

\* The types the renderer is modelled for.
RenderedTypes == {"chars", "string", "uint32", "array"}

\* value2xml(d, sb, wv) for a non-array value v of type t: the character
\* data it appends.  An array appends the text "**[]**".
value2xml(t, null, v) ==
    CASE t = "array" -> <<42, 42, 91, 93, 42, 42>>
      [] t \in {"chars", "string"} -> XMLEscape(v, null)
      [] t = "uint32" -> Decimal(IF null THEN 0 ELSE ScalarNum(v))

\* data2xml for a property (PROPERTY, PROPERTY.ARRAY) or an argument
\* (PARAMVALUE): the element, its TYPE, and the character data of each
\* <VALUE> in it.  A null value or array gets no <VALUE>; a uint32 array
\* gets one <VALUE> per element.
data2xml(tag, t, null, v) ==
    [tag    |-> tag,
     type   |-> IF t = "array" THEN "uint32" ELSE dataType(t),
     array  |-> t = "array",
     present |-> ~null,
     values |-> IF null THEN <<>>
                ELSE IF t = "array" THEN [j \in 1 .. Len(v) |-> Decimal(v[j])]
                ELSE <<value2xml(t, FALSE, v)>>]

\* instance2xml: the element of each property, PROPERTY.ARRAY for an array.
\* (No property list filters the instance; qualifiers are not rendered.)
instance2xml(t, null, v) ==
    data2xml(IF t = "array" THEN "PROPERTY.ARRAY" ELSE "PROPERTY", t, null, v)

\* args2xml: a PARAMVALUE for each argument.
args2xml(t, null, v) == data2xml("PARAMVALUE", t, null, v)

\* keyBinding2xml: a KEYBINDING with a KEYVALUE holding value2xml of the
\* key, whatever its null state.
keyBinding2xml(t, null, v) ==
    [tag |-> "KEYVALUE", type |-> dataType(t), array |-> FALSE,
     present |-> TRUE, values |-> <<value2xml(t, null, v)>>]

\* The element of an entry of an object of kind k.
PropertyXml(k, t, null, v) ==
    CASE k = "Instance" -> instance2xml(t, null, v)
      [] k = "Args" -> args2xml(t, null, v)
      [] k = "ObjectPath" -> keyBinding2xml(t, null, v)

-----------------------------------------------------------------------------
(* The client side: an XML reader.                                        *)

\* The character data t as an XML reader returns it: entity references are
\* replaced, CDATA sections give their content, and a bare '<' or '&', an
\* unknown entity, an unterminated section or a "]]>" outside a section is
\* malformed (ok = FALSE).
RECURSIVE ReadText(_)
ReadText(t) ==
    LET more(pre, n) == LET r == ReadText(SubSeq(t, n + 1, Len(t)))
                        IN  [ok |-> r.ok, text |-> pre \o r.text]
        bad == [ok |-> FALSE, text |-> <<>>]
        ents == {c \in DOMAIN Entity : IsPrefix(Entity[c], t)}
    IN  IF t = <<>> THEN [ok |-> TRUE, text |-> <<>>]
        ELSE IF IsPrefix(CdataStart, t)
        THEN IF EndMarkAt(t, 10) = 0 THEN bad
             ELSE more(SubSeq(t, 10, EndMarkAt(t, 10) - 1), EndMarkAt(t, 10) + 2)
        ELSE IF IsPrefix(CdataEnd, t) THEN bad
        ELSE IF t[1] = AMP
        THEN IF ents = {} THEN bad
             ELSE LET c == CHOOSE c \in ents : TRUE IN more(<<c>>, Len(Entity[c]))
        ELSE IF t[1] = LT THEN bad
        ELSE more(<<t[1]>>, 1)

\* The decimal number a reader parses from digits.
ParseDecimal(t) == FoldLeft(LAMBDA acc, d : 10 * acc + (d - 48), 0, t)

\* The value a client takes from an element, and whether the element's
\* character data was well formed: nullv when it has no value, the numbers
\* of an array's <VALUE>s, the text of a string, the number of a scalar.
ReadElement(el, nullv) ==
    IF ~el.present THEN [ok |-> TRUE, val |-> nullv]
    ELSE IF el.array
    THEN [ok |-> TRUE, val |-> [j \in DOMAIN el.values |-> ParseDecimal(el.values[j])]]
    ELSE IF el.type = "string"
    THEN LET r == ReadText(el.values[1]) IN [ok |-> r.ok, val |-> r.text]
    ELSE [ok |-> TRUE, val |-> ParseDecimal(el.values[1])]

\* What XMLEscape is meant to deliver for a string s: s itself, except that
\* a CDATA section s contains is passed as markup, so the reader gets its
\* content.
RECURSIVE Intended(_)
Intended(s) ==
    IF s = <<>> THEN <<>>
    ELSE IF IsPrefix(CdataStart, s) /\ EndMarkAt(s, 10) # 0
    THEN SubSeq(s, 10, EndMarkAt(s, 10) - 1) \o Intended(SubSeq(s, EndMarkAt(s, 10) + 3, Len(s)))
    ELSE <<s[1]>> \o Intended(Tail(s))

-----------------------------------------------------------------------------
(* The qualifiers of a class (cls2xml with FL_includeQualifiers).  A       *)
(* qualifier element is reduced to its name; the names of the quals bits  *)
(* are the strings quals2xml writes.                                      *)

\* The QUALIFIER elements quals2xml writes, in its order, for a set of
\* quals bits: those of ClClass.quals, or a ClProperty's quals shifted by 8.
QualOrder == <<"Abstract", "Association", "Indication", "Key",
               "EmbeddedObject", "EmbeddedInstance">>

\* Faulty variant of quals2xml: EmbeddedObject is written whenever its bit
\* is set, also next to EmbeddedInstance.
quals2xmlBoth(bits) == SelectSeq(QualOrder, LAMBDA l : l \in bits)

\* EmbeddedInstance sets the EmbeddedObject bit too; only one of the two
\* is written.
quals2xml(bits) ==
    SelectSeq(QualOrder, LAMBDA l : /\ l \in bits
                                    /\ l = "EmbeddedObject" => "EmbeddedInstance" \notin bits)

\* param2xml: the PARAMETER element of a parameter whose qualifiers have
\* the names qn; it lists them only with FL_includeQualifiers (iq).
param2xml(iq, qn) == [tag |-> "PARAMETER", quals |-> IF iq THEN qn ELSE <<>>]

\* method2xml: the METHOD element around qsb, which holds the method's
\* qualifiers, then its parameters.
method2xml(qs, params) == [tag |-> "METHOD", quals |-> qs, params |-> params]

\* cls2xml(cls, sb, flags): the class's qualifiers (the quals bits, then
\* the qualifiers Section), each property's (its bits, then its Section),
\* each method's and each parameter's.  cb, pb: the bits of the class and
\* of each property; cq, pq, mq, paq: the names in the qualifiers Sections
\* of the class, of each property, of each method and of each parameter.
cls2xml(iq, cb, cq, pb, pq, mq, paq) ==
    [quals   |-> IF iq THEN quals2xml(cb) \o cq ELSE <<>>,
     props   |-> [i \in DOMAIN pq |-> IF iq THEN quals2xml(pb[i]) \o pq[i] ELSE <<>>],
     methods |-> [m \in DOMAIN mq |->
                   method2xml(IF iq THEN mq[m] ELSE <<>>,
                              [p \in DOMAIN paq[m] |-> param2xml(iq, paq[m][p])])]]

=============================================================================
