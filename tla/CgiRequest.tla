------------------------------ MODULE CgiRequest ------------------------------
(***************************************************************************)
(* The construction of a request from its environment and its look-ups,    *)
(* fcgi/cgiRequestBase.cpp.  The environment comes first and the extra     *)
(* entries (a CGI program's arguments) after it; the constructor sorts     *)
(* them into envmap and fills the other maps from it.                      *)
(*                                                                         *)
(* A name the code looks up is one number here, in alphabetical order, and *)
(* "HTTP_" is one too: <<HTTP, ...>> is the name of a header.  Adding 100   *)
(* makes capital letters small.                                            *)
(***************************************************************************)
EXTENDS UrlEncoded, FiniteSets

CONSTANTS
  Requests,      \* [envs, extra, jar]: the environment a request comes with,
                 \* a CGI program's arguments, the cookies the client returns
  None           \* no value; an entry without '='

HTTPS == <<1>>
HTTP == <<2>>
QUERY_STRING == <<3>>
REDIRECT_URL == <<4>>
SCRIPT_NAME == <<5>>
HTTP_COOKIE == HTTP \o <<7>>

(* The order of std::string_view, and libadhocutil's case_less. *)
Less(p, q) == \E j \in 1..Len(q) :
  /\ \A h \in 1..(j - 1) : h <= Len(p) /\ p[h] = q[h]
  /\ j > Len(p) \/ p[j] < q[j]

Capitals(p) == [j \in DOMAIN p |-> IF p[j] > 100 THEN p[j] - 100 ELSE p[j]]

CaseLess(p, q) == Less(Capitals(p), Capitals(q))

VarMap == INSTANCE FlatMap
HdrMap == INSTANCE FlatMap WITH Less <- CaseLess

Key == Seq(Nat)
Pair == [key : Key, value : Seq(Byte)]
Request == [envs : Seq(Pair \cup {None}), extra : Seq(Pair \cup {None}), jar : Seq(Pair)]

ASSUME RequestAssumption ==
  /\ Requests \subseteq Request
  /\ None \notin [key : Key, value : Key] \cup Key
  /\ \A r \in Requests : \A j \in DOMAIN r.jar : r.jar[j].key \in Seq(Byte \ {0}) /\ r.jar[j].value \in Seq(Byte \ {0})

VARIABLES
  jar,           \* the cookies that are in the entries
  given,         \* the entries, as given
  next,          \* the next one to read
  envmap, pathElements, qsmap, cookiemap, hdrmap,
  header,        \* the next of envmap's pairs to copy to hdrmap
  pc             \* what the constructor does next, or how it ended

vars == <<jar, given, next, envmap, pathElements, qsmap, cookiemap, hdrmap, header, pc>>

-----------------------------------------------------------------------------

(* What setCookie sends of a cookie, and a client that returns cookies. *)
Cookie(c) == urlencode(c.key) \o <<Equals>> \o urlencode(c.value)

Joined(pairs, sep) ==
  LET line[j \in 1..Len(pairs)] ==
        IF j = 1 THEN Cookie(pairs[1]) ELSE line[j - 1] \o sep \o Cookie(pairs[j])
  IN line[Len(pairs)]

CookieHeader(cookies) == Joined(cookies, <<Semicolon, Space>>)

CookieEntry(cookies) ==
  IF cookies = <<>> THEN <<>> ELSE <<[key |-> HTTP_COOKIE, value |-> CookieHeader(cookies)]>>

EntriesOf(r) == CookieEntry(r.jar) \o r.envs \o r.extra

Start(r) ==
  /\ jar = r.jar /\ given = EntriesOf(r)
  /\ next = 1 /\ header = 0
  /\ envmap = <<>> /\ qsmap = <<>> /\ cookiemap = <<>> /\ hdrmap = <<>> /\ pathElements = <<>>
  /\ pc = "environment"

Init == \E r \in Requests : Start(r)

AddEnv ==
  /\ pc = "environment" /\ next <= Len(given)
  /\ envmap' = IF given[next] = None THEN envmap ELSE VarMap!insert(envmap, given[next])
  /\ next' = next + 1
  /\ UNCHANGED <<jar, given, pathElements, qsmap, cookiemap, hdrmap, header, pc>>

ValueAt(map, j) == IF j > Len(map) THEN None ELSE map[j].value

optionalLookup(k, map) == ValueAt(map, VarMap!find(map, k))

(* findFirstOrElse *)
PathText == IF optionalLookup(REDIRECT_URL, envmap) # None
            THEN optionalLookup(REDIRECT_URL, envmap) ELSE optionalLookup(SCRIPT_NAME, envmap)

(* substr(1) throws for an empty text. *)
SetPath ==
  /\ pc = "environment" /\ next > Len(given)
  /\ IF PathText = None THEN pc' = "Http400BadRequest" /\ UNCHANGED pathElements
     ELSE IF PathText = <<>> THEN pc' = "out_of_range" /\ UNCHANGED pathElements
     ELSE /\ pathElements' = IF Len(PathText) = 1 THEN <<>> ELSE Split(Tail(PathText), <<Slash>>)
          /\ pc' = "query"
  /\ UNCHANGED <<jar, given, next, envmap, qsmap, cookiemap, hdrmap, header>>

(* mapVars: a map with the variables of the text put in, one after another. *)
Vars(k, split) ==
  IF optionalLookup(k, envmap) = None THEN <<>> ELSE iterateVars(optionalLookup(k, envmap), split)

MapOf(variables) ==
  LET filled[j \in 0..Len(variables)] == IF j = 0 THEN <<>> ELSE VarMap!insert(filled[j - 1], variables[j])
  IN filled[Len(variables)]

MapQuery ==
  /\ pc = "query"
  /\ LET variables == Vars(QUERY_STRING, <<Ampersand>>) IN
     IF Has(variables, Bad) THEN pc' = "Http400BadRequest" /\ UNCHANGED qsmap
     ELSE IF Has(variables, Overrun) THEN pc' = "undefined" /\ UNCHANGED qsmap
     ELSE pc' = "cookies" /\ qsmap' = MapOf(variables)
  /\ UNCHANGED <<jar, given, next, envmap, pathElements, cookiemap, hdrmap, header>>

MapCookies ==
  /\ pc = "cookies"
  /\ LET variables == Vars(HTTP_COOKIE, <<Semicolon, Space>>) IN
     IF Has(variables, Bad) THEN pc' = "Http400BadRequest" /\ UNCHANGED <<cookiemap, header>>
     ELSE IF Has(variables, Overrun) THEN pc' = "undefined" /\ UNCHANGED <<cookiemap, header>>
     ELSE /\ pc' = "headers" /\ cookiemap' = MapOf(variables)
          /\ header' = VarMap!lower_bound(envmap, HTTP)
  /\ UNCHANGED <<jar, given, next, envmap, pathElements, qsmap, hdrmap>>

starts_with(k, prefix) == Len(prefix) <= Len(k) /\ SubSeq(k, 1, Len(prefix)) = prefix

(* Mutated form: every name from "HTTP_" on. *)
AddHeaderToEnd ==
  /\ pc = "headers"
  /\ IF header <= Len(envmap)
     THEN /\ hdrmap' = HdrMap!insert(hdrmap, [envmap[header] EXCEPT !.key = Tail(@)])
          /\ header' = header + 1 /\ UNCHANGED pc
     ELSE pc' = "ready" /\ UNCHANGED <<hdrmap, header>>
  /\ UNCHANGED <<jar, given, next, envmap, pathElements, qsmap, cookiemap>>

AddHeader ==
  /\ pc = "headers"
  /\ IF header <= Len(envmap) /\ starts_with(envmap[header].key, HTTP)
     THEN /\ hdrmap' = HdrMap!insert(hdrmap, [envmap[header] EXCEPT !.key = Tail(@)])
          /\ header' = header + 1 /\ UNCHANGED pc
     ELSE pc' = "ready" /\ UNCHANGED <<hdrmap, header>>
  /\ UNCHANGED <<jar, given, next, envmap, pathElements, qsmap, cookiemap>>

Next == AddEnv \/ SetPath \/ MapQuery \/ MapCookies \/ AddHeader

Spec == Init /\ [][Next]_vars

-----------------------------------------------------------------------------
(* The request's operations.                                               *)

getEnvStr(k) == optionalLookup(k, envmap)
getQueryStringParamStr(k) == optionalLookup(k, qsmap)
getCookieParamStr(k) == optionalLookup(k, cookiemap)
getHeaderParamStr(k) == ValueAt(hdrmap, HdrMap!find(hdrmap, k))
isSecure == VarMap!contains(envmap, HTTPS)

-----------------------------------------------------------------------------
(* Properties.                                                             *)

(* The keys that occur in a sequence of pairs, and a key's values in order. *)
Entries(s) == {j \in DOMAIN s : s[j] # None}
Keys(s) == {s[j].key : j \in Entries(s)}
Latest(s, k) == LET at == {j \in Entries(s) : s[j].key = k} IN s[CHOOSE j \in at : \A h \in at : h <= j].value

(* No entry but the jar's is of cookies. *)
JarOnly(s, cookies) == Cardinality({j \in Entries(s) : s[j].key = HTTP_COOKIE}) = Len(CookieEntry(cookies))

Earliest(s, k) == LET at == {j \in Entries(s) : s[j].key = k} IN s[CHOOSE j \in at : \A h \in at : j <= h].value

(* Every map is in the order of its keys at every moment: std::lower_bound  *)
(* and std::binary_search are undefined on any other.                       *)
MapsSorted ==
  VarMap!Sorted(envmap) /\ VarMap!Sorted(qsmap) /\ VarMap!Sorted(cookiemap) /\ HdrMap!Sorted(hdrmap)

(* Of several entries of one name the last counts: an argument of a CGI     *)
(* program overrides the environment, a later query string variable an      *)
(* earlier one.  A name that was not given is not found.                    *)
LatestCounts == pc = "ready" =>
  /\ \A k \in Keys(given) : getEnvStr(k) = Latest(given, k)
  /\ LET query == Vars(QUERY_STRING, <<Ampersand>>) IN
       /\ \A k \in Keys(query) : getQueryStringParamStr(k) = Latest(query, k)
       /\ \A k \in Keys(cookiemap) \ Keys(query) : getQueryStringParamStr(k) = None
  /\ isSecure <=> HTTPS \in Keys(given)

(* A request has exactly the headers whose HTTP_ names the environment has, *)
(* and small and capital letters are one.  Of several entries of one name   *)
(* the FIRST counts: copying envmap's pairs in order, each before the       *)
(* others of its key, turns them round.                                     *)
SameHeader(k) == {n \in Keys(given) : starts_with(n, HTTP) /\ Capitals(n) = Capitals(k)}

HeadersTurned == pc = "ready" =>
  /\ \A k \in Keys(given) : starts_with(k, HTTP) =>
       \E n \in SameHeader(k) : /\ \A o \in SameHeader(k) : ~Less(n, o)
                               /\ getHeaderParamStr(Tail(k)) = Earliest(given, n)
  /\ \A k \in Keys(hdrmap) : HTTP \o k \in Keys(given)

(* What setCookie sends and a client sends back is what                     *)
(* getCookieParamStr reads, whatever bytes the names and the values hold:   *)
(* a '=', a ';' or a '+' does not split or change them.  (Two kinds of byte *)
(* are out: 0, whose escape urlDecode refuses, and 255, for which the       *)
(* tables of the code have no entry.)                                       *)
CookiesReadBack == JarOnly(given, jar) =>
  /\ pc \in {"headers", "ready"} => \A k \in Keys(jar) : getCookieParamStr(k) = Latest(jar, k)
  /\ pc = "Http400BadRequest" => PathText = None \/ Has(Vars(QUERY_STRING, <<Ampersand>>), Bad)

=============================================================================
