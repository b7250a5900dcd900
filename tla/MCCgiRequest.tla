---------------------------- MODULE MCCgiRequest ----------------------------
(* Environments for CgiRequest: every query string of up to four bytes of an *)
(* alphabet of marks and digits; jars of one or two cookies, with a byte of  *)
(* each kind; and every order of up to three entries of a pool, with up to   *)
(* one argument.  And cases for Parameters: routes of one or two parameters, *)
(* with clients that send up to two pairs by form, query or cookies.         *)
EXTENDS Parameters

CONSTANT Default

SeqsUpTo(S, n) == UNION {[1..m -> S] : m \in 0..n}

Entry(k, v) == [key |-> k, value |-> v]
Script == Entry(SCRIPT_NAME, <<Slash, 97, Slash, Slash, 98>>)

Queries == SeqsUpTo({Percent, Plus, Ampersand, Equals, 50, 66}, 4)

Kinds == {1, Space, Percent, Ampersand, Plus, 48, Semicolon, Equals, 97, 126, 254}
MCJars ==
  { <<Entry(<<b>>, <<c, d>>)>> : b, c, d \in Kinds } \cup
  { <<Entry(n[1], <<c>>), Entry(n[2], <<d, 97>>)>> :
      n \in {m \in {<<Semicolon>>, <<Equals>>, <<97>>} \X {<<Semicolon>>, <<Equals>>, <<97>>} : m[1] # m[2]},
      c, d \in {Equals, 97, 98} }

X == HTTP \o <<8>>
Pool == {None, Script, Entry(SCRIPT_NAME, <<>>), Entry(REDIRECT_URL, <<Slash>>), Entry(HTTPS, <<50>>),
         Entry(X, <<49>>), Entry(X, <<50>>), Entry(HTTP \o <<108>>, <<52>>), Entry(QUERY_STRING, <<97, Equals, 49, Ampersand, 97, Equals, 50>>)}

MCRequests ==
  [envs : {<<Script, Entry(QUERY_STRING, q)>> : q \in Queries}, extra : {<<>>}, jar : {<<>>}] \cup
  [envs : {<<Script>>}, extra : {<<>>}, jar : MCJars] \cup
  [envs : SeqsUpTo(Pool, 3), jar : {<<>>},
   extra : {<<>>} \cup {<<e>> : e \in {Entry(REDIRECT_URL, <<Slash, 98>>), Entry(X, <<51>>), Entry(QUERY_STRING, <<98>>)}}]

-----------------------------------------------------------------------------

A == <<97>>
B == <<98>>
MCMembers == [k \in {A, B} |-> IF k = A THEN "string" ELSE "bool"]

ContentTypes == {<<>>, <<Entry(CONTENT_TYPE, FormType)>>, <<Entry(CONTENT_TYPE, FormType \o <<Semicolon>>)>>}

CasesOf(ps, pairs) ==
  { [request |-> [envs |-> <<Script, Entry(QUERY_STRING, Form(pairs)), Entry(X, IF pairs = <<>> THEN <<>> ELSE pairs[1].value)>> \o content,
                  extra |-> <<>>, jar |-> IF content = <<>> THEN pairs ELSE <<>>],
     params |-> ps, sent |-> pairs, body |-> Form(pairs)] :
      content \in {c \in ContentTypes :
        /\ (\E j \in DOMAIN ps : ps[j].source = "Cookie") => c = <<>>
        /\ (\A j \in DOMAIN ps : ps[j].source # "Body") => Len(c) = 0} }

Param(source, key, type) ==
  { [source |-> source, key |-> key, type |-> type, isOptional |-> o, default |-> d] : o \in BOOLEAN, d \in {None, Default} }

Keyeds(type) == UNION {Param(s, A, type) : s \in {"QueryString", "Cookie", "Body"}}
Required(ps) == {p \in ps : ~p.isOptional /\ p.default = None}

(* Texts: any bytes, words, and one or two pairs. *)
Texts == { <<c>> : c \in Kinds } \cup {<<>>, <<Equals, 97, Ampersand>>, <<Percent, 50, 53>>}
Pairs == { <<Entry(k, v)>> : k \in {A, B, <<Equals, Ampersand>>}, v \in Texts } \cup
         { <<Entry(k, v), Entry(l, w)>> : k, l \in {A, B}, v \in {<<>>, <<Equals, 97, Ampersand>>, <<Percent, 50, 53>>, TRUEText}, w \in {TRUEText, <<Plus>>} } \cup {<<>>}

StringParams ==
  { <<p>> : p \in Keyeds("string") \cup Required(UNION {Param("Body", None, t) : t \in {"StringMap", "Complex", "string", "bool"}}) } \cup
  { <<p, q>> : p \in Required(Param("Body", A, "string")) \cup Required(Param("Body", None, "string")),
               q \in Param("Body", B, "string") \cup Required(Param("URL", <<1>>, "string")) }

Numbers == {ToString(n) : n \in {0, -1, 7, 255, 256, 32767, 32768, -32768, -32769}} \cup
           {<<>>, <<Minus>>, <<49, 120>>, <<48, 48, 49>>, <<Plus, 48>>, <<Minus, 49>>, <<120>>, TRUEText, FALSEText}

NumberParams ==
  { <<p>> : p \in UNION {Keyeds(t) : t \in {"byte", "short", "bool"}} \cup Param("Header", <<108>>, "short")
             \cup Param("Header", <<8>>, "byte") \cup Required(UNION {Param("URL", <<j>>, t) : j \in {0, 2}, t \in {"string", "short"}}) }

NoParams(r) == [request |-> r, params |-> <<>>, sent |-> <<>>, body |-> <<>>]

MCCases == {NoParams(r) : r \in MCRequests} \cup UNION {CasesOf(ps, pairs) : ps \in StringParams, pairs \in Pairs}
           \cup UNION {CasesOf(ps, <<Entry(A, t)>>) : ps \in NumberParams, t \in Numbers}

AllRequests == {c.request : c \in MCCases}

=============================================================================
