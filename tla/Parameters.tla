------------------------------ MODULE Parameters ------------------------------
(***************************************************************************)
(* How a route handler gets its parameters: what the generated execute()   *)
(* asks of the request, one parameter after another, from the path, the    *)
(* query string, the headers, the cookies and the body.  Covers the        *)
(* templates of core/ihttpRequest.h, convert of core/util.h and the        *)
(* deserialization of form bodies in core/xwwwFormUrlEncoded.cpp.          *)
(*                                                                         *)
(* A parameter is a record: its source; its key (of a URL parameter, its   *)
(* index in the path; None for one that is the whole body); its type;      *)
(* whether it isOptional; its default, or None.                            *)
(***************************************************************************)
EXTENDS CgiRequest

CONSTANTS
  Cases,         \* [request, body, params, sent]: what a request comes with, the
                 \* parameters of its route, and what the client meant to send
  Members        \* Members[k]: the type of member k of the Complex body type

(* A form or a query string, as a client writes it. *)
Form(pairs) == IF pairs = <<>> THEN <<>> ELSE Joined(pairs, <<Ampersand>>)

(* Where the route's parameters come from, the request has the pairs that   *)
(* were to be sent.                                                         *)
Sends(c) ==
  LET from(source) == \E j \in DOMAIN c.params : c.params[j].source = source IN
  /\ c.sent \in Seq([key : Seq(Byte \ {0}), value : Seq(Byte \ {0})])
  /\ None \notin [Keys(c.sent) -> Key]
  /\ from("QueryString") =>
       QUERY_STRING \in Keys(EntriesOf(c.request)) /\ Latest(EntriesOf(c.request), QUERY_STRING) = Form(c.sent)
  /\ from("Cookie") => c.request.jar = c.sent /\ JarOnly(EntriesOf(c.request), c.sent)
  /\ from("Body") => c.body = Form(c.sent)

(* Only a whole body is of a type that convert cannot make of a text, and   *)
(* what stands for no value or a default is told from every value.          *)
ASSUME CasesAssumption == \A c \in Cases :
  /\ c.request \in Requests
  /\ c.params \in Seq({c.params[j] : j \in DOMAIN c.params})
  /\ \A p \in {c.params[j] : j \in DOMAIN c.params} :
       /\ p.key \in Key \cup {None}
       /\ p.type \in {"StringMap", "Complex"} => p.source = "Body" /\ p.key = None
       /\ {p.default, None} \cap (Key \cup Int \cup BOOLEAN) = {}
  /\ Sends(c)

VARIABLES
  params,        \* the parameters of the route
  sent,          \* the pairs the client wrote into its form, query or cookies
  input,         \* what is left of the request's body
  pbody,         \* _pbody: the body as a StringMap, once a keyed parameter was asked for
  got,           \* what the parameters fetched so far are
  outcome        \* what execute() does, or how it ended

paramVars == <<params, sent, input, pbody, got, outcome>>

CONTENT_TYPE == <<0>>
FormType == <<102>>      \* "application/x-www-form-urlencoded", the plug-in's name
TRUEText == <<116>>      \* "true"
FALSEText == <<102>>     \* "false"
Minus == 45

-----------------------------------------------------------------------------
(* util.h: convert.  The set of the one value a text converts to, or none. *)

Least == [byte |-> 0, short |-> -32768]
Greatest == [byte |-> 255, short |-> 32767]

(* std::from_chars: a '-' for a signed type only, then the digits there are; *)
(* what follows them is not looked at.                                       *)
DigitsAt(text, j) == CHOOSE n \in 0..(Len(text) + 1 - j) :
  /\ \A h \in 0..(n - 1) : text[j + h] \in Digits
  /\ j + n <= Len(text) => text[j + n] \notin Digits

Decimal(text) ==
  LET upTo[j \in 0..Len(text)] == IF j = 0 THEN 0 ELSE 10 * upTo[j - 1] + text[j] - 48 IN upTo[Len(text)]

Signed(text, type) == Least[type] < 0 /\ text # <<>> /\ Head(text) = Minus

(* Mutated form: a number that does not fit loses its high bits. *)
from_charsWrapped(text, type) ==
  LET start == IF Signed(text, type) THEN 2 ELSE 1
      n     == DigitsAt(text, start)
  IN {(IF start = 2 THEN -v ELSE v) % (Greatest[type] + 1) :
        v \in IF n = 0 THEN {} ELSE {Decimal(SubSeq(text, start, start + n - 1))}}

from_chars(text, type) ==
  LET start == IF Signed(text, type) THEN 2 ELSE 1
      n     == DigitsAt(text, start)
      value == IF start = 2 THEN -Decimal(SubSeq(text, 2, n + 1)) ELSE Decimal(SubSeq(text, 1, n))
  IN IF n = 0 THEN {} ELSE {value} \cap Least[type]..Greatest[type]

(* boost::conversion::try_lexical_convert to bool: a 0 or a 1, which zeros  *)
(* and a sign may precede, a '-' the 0 only.                                *)
lexical_cast(text) ==
  LET sign == text # <<>> /\ (Head(text) = Plus \/ (Head(text) = Minus /\ text[Len(text)] = 48))
      bits == IF sign THEN Tail(text) ELSE text
  IN IF bits # <<>> /\ bits[Len(bits)] \in {48, 49} /\ \A j \in 1..(Len(bits) - 1) : bits[j] = 48
     THEN {bits[Len(bits)] = 49} ELSE {}

convert(text, type) ==
  IF type = "string" THEN {text} ELSE IF type = "bool" THEN lexical_cast(text) ELSE from_chars(text, type)

(* xwwwFormUrlEncoded.cpp: SetFromString.  In a body a bool is a word. *)
SetFromString(text, type) ==
  IF type # "bool" THEN convert(text, type)
  ELSE {b \in BOOLEAN : text = IF b THEN TRUEText ELSE FALSEText}

-----------------------------------------------------------------------------

ParamInit ==
  /\ \E c \in Cases : Start(c.request) /\ params = c.params /\ sent = c.sent /\ input = c.body
  /\ pbody = None /\ got = <<>> /\ outcome = "execute"

(* The constructor of the request. *)
Construct == Next /\ UNCHANGED paramVars

(* The constructor threw. *)
Unconstructed ==
  /\ pc \in {"Http400BadRequest", "out_of_range", "undefined"} /\ outcome = "execute"
  /\ outcome' = pc
  /\ UNCHANGED <<vars, params, sent, input, pbody, got>>

(* A parameter is the value of values, or it does not convert. *)
Fetched(values) ==
  /\ got' = IF values = {} THEN got ELSE Append(got, CHOOSE v \in values : TRUE)
  /\ outcome' = IF values = {} THEN "Http400BadRequest" ELSE outcome

(* The request has no such parameter: it is left out if it isOptional; else *)
(* operator/ asks for the default, or requiredParameterNotFound throws.     *)
Missing(p) == Fetched(IF p.isOptional THEN {None} ELSE {p.default} \ {None})

(* Mutated form: a value that does not convert is taken for none. *)
getFromLoose(p, text) ==
  IF text = None \/ convert(text, p.type) = {} THEN Missing(p) ELSE Fetched(convert(text, p.type))

getFrom(p, text) == IF text = None THEN Missing(p) ELSE Fetched(convert(text, p.type))

(* p is the next of the parameters, and comes from source. *)
Asks(p, source) ==
  /\ pc = "ready" /\ outcome = "execute" /\ Len(got) < Len(params)
  /\ p = params[Len(got) + 1] /\ p.source = source
  /\ UNCHANGED <<vars, params, sent>>

getURLParam(p) ==
  /\ Asks(p, "URL")
  /\ IF Head(p.key) < Len(pathElements) THEN Fetched(convert(pathElements[Head(p.key) + 1], p.type))
     ELSE outcome' = "runtime_error" /\ UNCHANGED got
  /\ UNCHANGED <<input, pbody>>

getQueryStringParam(p) ==
  /\ Asks(p, "QueryString") /\ getFrom(p, getQueryStringParamStr(p.key)) /\ UNCHANGED <<input, pbody>>

getHeaderParam(p) ==
  /\ Asks(p, "Header") /\ getFrom(p, getHeaderParamStr(p.key)) /\ UNCHANGED <<input, pbody>>

getCookieParam(p) ==
  /\ Asks(p, "Cookie") /\ getFrom(p, getCookieParamStr(p.key)) /\ UNCHANGED <<input, pbody>>

-----------------------------------------------------------------------------
(* The body.                                                               *)

(* getDeserializer: plug-ins are found by their exact name.  The stream is  *)
(* read to its end.                                                         *)
Body == iterateVars(input, <<Ampersand>>)

NoBody(why) == outcome' = why /\ UNCHANGED <<got, input, pbody>>

(* Why there is no body to be had, or None. *)
getDeserializer ==
  IF getEnvStr(CONTENT_TYPE) = None THEN "Http400BadRequest"
  ELSE IF getEnvStr(CONTENT_TYPE) # FormType THEN "Http415UnsupportedMediaType"
  ELSE IF Has(Body, Bad) THEN "Http400BadRequest"
  ELSE IF Has(Body, Overrun) THEN "undefined"
  ELSE None

(* Mutated form: the first variable of the body. *)
deserializeSimpleFirst(type) ==
  IF Body = <<>> THEN {None} ELSE SetFromString(Body[1].value, type)

(* Every variable is assigned to the one value, and every one must convert. *)
(* Without variables the value is what Slicer made it.                      *)
deserializeSimple(type) ==
  IF Body = <<>> THEN {None}
  ELSE IF \E j \in DOMAIN Body : SetFromString(Body[j].value, type) = {} THEN {}
  ELSE SetFromString(Body[Len(Body)].value, type)

(* Every variable whose key is a member is assigned to it; others are not   *)
(* looked at.                                                               *)
deserializeComplex ==
  LET member(k) == IF k \in Keys(Body) THEN SetFromString(Latest(Body, k), Members[k]) ELSE {None}
  IN IF \E j \in DOMAIN Body : Body[j].key \in DOMAIN Members /\ SetFromString(Body[j].value, Members[Body[j].key]) = {}
     THEN {}
     ELSE {[k \in DOMAIN Members |-> CHOOSE v \in member(k) : TRUE]}

(* Every variable is an entry; which one of a key stays is up to Slicer. *)
deserializeDictionary ==
  {d \in [Keys(Body) -> {Body[j].value : j \in DOMAIN Body}] :
     \A k \in DOMAIN d : \E j \in DOMAIN Body : Body[j] = [key |-> k, value |-> d[k]]}

(* A parameter that is the whole body. *)
getBody(p) ==
  /\ Asks(p, "Body") /\ p.key = None
  /\ IF getDeserializer # None THEN NoBody(getDeserializer)
     ELSE /\ input' = <<>> /\ UNCHANGED pbody
          /\ IF p.type = "StringMap" THEN \E d \in deserializeDictionary : Fetched({d})
             ELSE Fetched(IF p.type = "Complex" THEN deserializeComplex ELSE deserializeSimple(p.type))

BodyText(map, k) == IF k \in DOMAIN map THEN map[k] ELSE None

(* A parameter that is one entry of _pbody; the first reads it. *)
getBodyParam(p) ==
  /\ Asks(p, "Body") /\ p.key # None
  /\ IF pbody # None THEN getFrom(p, BodyText(pbody, p.key)) /\ UNCHANGED <<input, pbody>>
     ELSE IF getDeserializer # None THEN NoBody(getDeserializer)
     ELSE \E map \in deserializeDictionary :
            pbody' = map /\ input' = <<>> /\ getFrom(p, BodyText(map, p.key))

(* All are fetched; the operations are called. *)
CallOperations ==
  /\ pc = "ready" /\ outcome = "execute" /\ Len(got) = Len(params)
  /\ outcome' = "called"
  /\ UNCHANGED <<vars, params, sent, input, pbody, got>>

ParamNext ==
  \/ Construct \/ Unconstructed \/ CallOperations
  \/ \E p \in {params[j] : j \in DOMAIN params} :
       getURLParam(p) \/ getQueryStringParam(p) \/ getHeaderParam(p) \/ getCookieParam(p)
         \/ getBody(p) \/ getBodyParam(p)

ParamSpec == ParamInit /\ [][ParamNext]_<<vars, paramVars>>

-----------------------------------------------------------------------------
(* Properties.                                                             *)

(* What the client sent for a keyed parameter: a header does not go through *)
(* a form, and of a dictionary's entries any may be the one.                *)
Keyed == {j \in DOMAIN params : params[j].source \in {"QueryString", "Cookie", "Body"} /\ params[j].key # None}
SentFor(j) == {sent[h].value : h \in {i \in DOMAIN sent : sent[i].key = params[j].key}}

(* The body is read once: no parameter is the whole of it, or that is the   *)
(* only one.                                                                *)
BodyShared == Len(params) = 1 \/ \A j \in DOMAIN params : params[j].source = "Body" => params[j].key # None

(* What a client writes into a form, a query string or its cookies is what  *)
(* the operations are called with, whatever bytes it has: a text unchanged, *)
(* the later of two of one name in a query, a whole form as a map or, by    *)
(* its members, as a structure.                                             *)
SentArrives == outcome = "called" /\ BodyShared /\ sent # <<>> => \A j \in DOMAIN got :
  /\ j \in Keyed /\ params[j].type = "string" /\ SentFor(j) # {} =>
       /\ got[j] \in SentFor(j)
       /\ params[j].source # "Body" => got[j] = Latest(sent, params[j].key)
  /\ params[j].type = "StringMap" => DOMAIN got[j] = Keys(sent) /\ \A k \in Keys(sent) :
       \E h \in DOMAIN sent : sent[h] = [key |-> k, value |-> got[j][k]]
  /\ params[j].type = "Complex" => \A k \in DOMAIN Members :
       IF k \in Keys(sent) THEN SetFromString(Latest(sent, k), Members[k]) = {got[j][k]} ELSE got[j][k] = None
  /\ params[j].source = "Body" /\ params[j].key = None /\ params[j].type = "string" => got[j] = sent[Len(sent)].value

(* The decimal form of a number, as std::to_string and clients write it. *)
Decimals(n) ==
  LET digits[m \in 0..n] == IF m < 10 THEN <<48 + m>> ELSE Append(digits[m \div 10], 48 + (m % 10)) IN digits[n]
ToString(n) == IF n < 0 THEN <<Minus>> \o Decimals(-n) ELSE Decimals(n)

(* A number is passed on as the number that was sent or the request is      *)
(* refused: never another one, cut to the width of the type.  And one that  *)
(* fits is not refused.                                                     *)
NumbersArrive == \A n \in {0, -1, 255, 256, 32767, 32768, -32768, -32769} :
  Len(params) = 1 /\ Keyed = {1} /\ params[1].type \in DOMAIN Least /\ SentFor(1) = {ToString(n)} =>
    LET fits == n \in Least[params[1].type]..Greatest[params[1].type] IN
    /\ outcome = "called" => fits /\ got[1] = n
    /\ outcome = "Http400BadRequest" /\ pc = "ready" /\ (params[1].source = "Body" => getEnvStr(CONTENT_TYPE) = FormType) =>
         ~fits

(* The default stands in for a parameter the request does not have, and for *)
(* nothing else: a value that is there and does not convert is an error of  *)
(* the client.  None are left out but the optional ones.                    *)
DefaultsForMissing == BodyShared => \A j \in Keyed \cap DOMAIN got :
  /\ got[j] \in {None, params[j].default} <=> SentFor(j) = {}
  /\ got[j] = None => params[j].isOptional

=============================================================================
