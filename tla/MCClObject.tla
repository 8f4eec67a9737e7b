------------------------------ MODULE MCClObject ------------------------------
(* Model-checking instance of ClObject.  Bytes are small numbers          *)
(* (0 is NUL); words and scalars are one or two bytes long, an embedded    *)
(* instance blob contains a NUL byte, as a serialized ClInstance does.     *)
EXTENDS ClObject

\* Every kind of object, or one.
MCKinds == {"Instance", "Args", "ObjectPath", "Class", "Qualifier"}
MCKind == {"Instance"}
MCArgsKind == {"Args"}
MCEmbeddedKinds == {"Instance", "Args"}
MCNameSpace == <<10>>
MCClassName == <<11>>
MCParentName == <<12>>

\* Calls per object: five; four on a Class, whose calls branch most, and on
\* an ObjectPath, where set, replace, key and flatten take four; three on a
\* qualifier declaration, whose only calls are add and flatten.
MCMaxOps == [k \in MCKinds |-> CASE k \in {"Class", "ObjectPath"} -> 4
                                  [] k = "Qualifier" -> 3
                                  [] OTHER -> 5]
MCMaxOps4 == [k \in MCKinds |-> 4]

\* Ids passed to the GetPropertyAt readers: 0 and 1 are the boundary
\* id = used of an empty and of a one-entry Section, a valid id of a
\* longer one, and 1 is beyond the range of an empty one; the runs about
\* other calls read only below the range.
MCGetIds == {0, 1}
MCGetIdsBelow == {-1}

\* Two property names, distinct under strcasecmp.
P1 == <<1>>
P2 == <<2>>
P3 == <<3>>
MCNames == {P1, P2}
MCNames3 == {P1, P2, P3}

Chars(w)   == [type |-> "chars",    null |-> FALSE, v |-> w]
Str(w)     == [type |-> "string",   null |-> FALSE, v |-> w]
U32(s)     == [type |-> "uint32",   null |-> FALSE, v |-> s]
Inst(b)    == [type |-> "instance", null |-> FALSE, v |-> b]
NullOf(t)  == [type |-> t, null |-> TRUE, v |-> 0]
Arr(es)    == [type |-> "array",    null |-> FALSE, v |-> es]

\* String-valued and scalar-valued properties, each set with its declared
\* type; a string property is set as chars ("<", "&>") or as a CMPIString
\* holding a CDATA section ("<![CDATA[<]]>").
MCCdata == <<60, 33, 91, 67, 68, 65, 84, 65, 91, 60, 93, 93, 62>>
MCStringInput == {Chars(<<60>>), Chars(<<38, 62>>), Str(MCCdata)}
MCScalarInput == {U32(<<7>>), U32(<<8>>), NullOf("uint32")}
MCInputData == [n \in MCNames |-> IF n = P1 THEN MCStringInput ELSE MCScalarInput]

\* The same, with a third property holding uint32 arrays of one and two
\* elements, or null.
MCArrayInput == {Arr(<<7>>), Arr(<<8, 9>>), NullOf("array")}
MCInputData3 == [n \in MCNames3 |-> CASE n = P1 -> MCStringInput
                                       [] n = P2 -> MCScalarInput
                                       [] n = P3 -> MCArrayInput]

\* A Class whose string property is set as chars only.
MCClassKind == {"Class"}
MCCharsInputData == [n \in MCNames |-> IF n = P1 THEN {Chars(<<60>>), Chars(<<38, 62>>)}
                                        ELSE MCScalarInput]

\* Two array-valued properties.
MCTwoArraysInputData == [n \in MCNames |-> MCArrayInput]

\* Embedded instances on an ArgumentList, next to a string argument.
MCEmbeddedInput == {Inst(<<6, 0, 6>>), Inst(<<9, 0>>)}
MCEmbeddedInputData == [n \in MCNames |-> IF n = P1 THEN MCEmbeddedInput ELSE MCStringInput]

\* A string property first set to null, then set as a CMPIString.
MCNullStringInput == {NullOf("chars"), Str(<<4>>)}
MCNullInputData == [n \in MCNames |-> IF n = P1 THEN MCNullStringInput ELSE MCScalarInput]

\* Class qualifiers: Abstract (a ClClass quals bit), Key and
\* EmbeddedInstance (ClProperty quals bits); each is an ordinary Section
\* entry where the code does not test its name.  Valued as chars.
ABSTRACT == <<20>>
KEY      == <<21>>
EMBINST  == <<22>>
MCQualNames == {ABSTRACT, KEY, EMBINST}
MCQualInput == {Chars(<<5>>)}
MCClassSpecial == ABSTRACT :> "Abstract"
MCPropSpecial == KEY :> "Key" @@ EMBINST :> "EmbeddedInstance"

\* One method with one parameter name; a reference refName.
MCMethodNames == {<<23>>}
MCParamNames == {<<24>>}
MCMethodTypes == {"uint32"}
MCRefNames == {<<25>>}

\* Host names, namespaces and class names an ObjectPath is set to.
MCPathNames == {<<13>>, <<14, 15>>}

\* The struct sizes of objectImpl.h on an LP64 target: a ClObjectHdr of 32
\* bytes (size, type and flags, the two table offsets), a ClSection of 16,
\* a CMPIData of 16; ClStrBuf and ClArrayBuf end with their buf[1].  The
\* build with the "%%%%" guard of rebuildClassH, CLEXTRA = 4.  A
\* ClQualifierDeclaration: the header, two ClStrings, flavor, scope, type
\* and arraySize in 8 bytes, and the qualifierData ClSection: 72.
MCSizeofHdr == [k \in {"Instance", "Args", "ObjectPath", "Class", "Qualifier"} |->
                  CASE k = "Instance" -> 80 [] k = "Args" -> 48
                    [] k = "ObjectPath" -> 48 [] k = "Class" -> 96
                    [] k = "Qualifier" -> 72]
=============================================================================
