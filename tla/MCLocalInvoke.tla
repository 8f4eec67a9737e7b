---------------------------- MODULE MCLocalInvoke ----------------------------
(* Model-checking instance of LocalInvoke: a class with one method "M"    *)
(* declaring a uint8 "A", a boolean "B" and a uint16 array "C"; calls of  *)
(* "m" with up to two arguments named in lower case (strcasecmp matches   *)
(* them) or unknown ("z").                                                 *)
EXTENDS LocalInvoke

TheClass == <<"M">> :> (<<"A">> :> CMPI_uint8 @@ <<"B">> :> CMPI_boolean
                        @@ <<"C">> :> CMPI_uint16 + CMPI_ARRAY)
ArgNames == {<<"a">>, <<"b">>, <<"c">>, <<"z">>}

\* Texts a client passes: a number, one too big for a uint8, the empty
\* text, a negative number and a boolean.
Texts == {<<"7">>, <<"3","0","0">>, <<>>, <<"-","1">>, <<"t","r","u","e">>}

\* Arguments given as char* or CMPIString texts, and as a uint8.
TextArgs == {[name |-> n, type |-> t, v |-> s] :
               n \in ArgNames, t \in {CMPI_chars, CMPI_string}, s \in Texts}
U8Args == {[name |-> n, type |-> CMPI_uint8, v |-> 7] : n \in ArgNames}

\* Calls with one argument, or two with different names.
ArgLists(A) == {<<a>> : a \in A} \union
               UNION {{<<a, b>> : b \in {x \in A : x.name # a.name}} : a \in A}

CallsOf(A) == [rcPtr : {TRUE}, vmpt : BOOLEAN, cls : {TheClass}, clsRc : {"NOT_FOUND"},
               method : {<<"m">>}, args : ArgLists(A), irc : {"MSG_X_PROVIDER"}]

\* A client passing char* texts, the common way to pass a string argument.
MCCharsCalls == CallsOf({a \in TextArgs : a.type = CMPI_chars} \union U8Args)
=============================================================================
