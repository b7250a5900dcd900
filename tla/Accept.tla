-------------------------------- MODULE Accept --------------------------------
(***************************************************************************)
(* Content negotiation: IHttpRequest::parseAccept and getSerializer of     *)
(* core/ihttpRequest.cpp, and a route's serializers, core/irouteHandler.cpp. *)
(* A text is a sequence of tokens: " ", "/", ",", ";", "=", "*" and words. *)
(***************************************************************************)
EXTENDS Integers, Sequences, FiniteSets

CONSTANTS
  Requests,     \* [text, wanted, parts, defaults, own]: an Accept header, or None;
                \* the entries it was written from, or None for any other text, and
                \* how they were written; the route's addDefaultSerializers; the media
                \* types of its own serializers, in the order they are added
  Catalogue,    \* the media types [group, type], in the order of std::map
  Globals,      \* the indices of those that have a global serializer
  Json,         \* the index of application/json
  Tokens,       \* what texts are made of
  None

Any == <<"*">>

(* A number's tenfold, for the words that are numbers. *)
NaN == 1000
Number == [w \in {"0", "0.5", "1", "1.5", "nan"} |->
  CASE w = "0" -> 0 [] w = "0.5" -> 5 [] w = "1" -> 10 [] w = "1.5" -> 15 [] w = "nan" -> NaN]

-----------------------------------------------------------------------------
(* A header as a client writes it.  Its parts are ranges, group/type, and   *)
(* parameters, name=value: the words left and right of the mark, with any   *)
(* number of spaces round both, of one of the entries that are wanted.      *)

Separators == {" ", "/", ",", ";", "="}
Words == Seq(Tokens \ Separators) \ {<<>>}
Part == [mark : {"/", "="}, left : Words, right : Words, pad : [1..4 -> Nat], of : Nat]

Spaces(n) == [j \in 1..n |-> " "]

PartText(part) ==
  Spaces(part.pad[1]) \o part.left \o Spaces(part.pad[2]) \o <<part.mark>>
    \o Spaces(part.pad[3]) \o part.right \o Spaces(part.pad[4])

(* What is before a part: a range begins an entry. *)
Joint(part) == IF part.mark = "/" THEN "," ELSE ";"

HeaderText(parts) ==
  LET n == Len(parts)
      text[k \in 1..(n + 1)] ==
        IF k = n + 1 THEN <<>>
        ELSE PartText(parts[k]) \o (IF k = n THEN <<>> ELSE <<Joint(parts[k + 1])>> \o text[k + 1])
  IN text[1]

(* The parts stand for these entries: first an entry's range, in which any  *)
(* group is of any type, then its parameters, of which q is its quality.    *)
Means(parts, entries) ==
  /\ {parts[k].of : k \in DOMAIN parts} = DOMAIN entries
  /\ \A j, k \in DOMAIN parts : j < k => parts[j].of <= parts[k].of
  /\ \A k \in DOMAIN parts :
       LET part == parts[k]
           entry == entries[part.of]
       IN /\ part.mark = "/" <=> \A j \in 1..(k - 1) : parts[j].of # part.of
          /\ part.mark = "/" => part.left = entry.group /\ part.right = entry.type /\ (part.left = Any => part.right = Any)
          /\ part.mark = "=" /\ part.left = <<"q">> =>
               \E w \in DOMAIN Number : part.right = <<w>> /\ entry.q = Number[w]
  /\ \A i \in DOMAIN entries : entries[i].q # 10 =>
       \E k \in DOMAIN parts : parts[k].of = i /\ parts[k].mark = "=" /\ parts[k].left = <<"q">>

ASSUME CatalogueAssumption ==
  /\ Catalogue \in Seq([group : Seq(Tokens), type : Seq(Tokens)])
  /\ Globals \subseteq DOMAIN Catalogue /\ Json \in Globals /\ Separators \subseteq Tokens

(* A text is cut into tokens so that a number is one of them, all its digits. *)
WholeNumbers(text) ==
  \A j \in DOMAIN text : text[j] \in DOMAIN Number => j + 1 \notin DOMAIN text \/ text[j + 1] \notin DOMAIN Number

ASSUME RequestsAssumption ==
  \A r \in Requests : /\ r.own \in Seq(DOMAIN Catalogue) /\ r.defaults \in BOOLEAN
                      /\ r.text # None => r.text \in Seq(Tokens) /\ WholeNumbers(r.text)
                      /\ r.wanted # None => /\ r.wanted # <<>>
                                            /\ r.wanted \in Seq([group : Seq(Tokens), type : Seq(Tokens), q : 1..10])
                                            /\ r.parts \in Seq(Part) /\ Means(r.parts, r.wanted)
                                            /\ r.text = HeaderText(r.parts)

VARIABLES
  request,           \* one of Requests
  routeSerializers,  \* media type's index -> the addition it is of, 0 for a global
  added,             \* how many of request.own are in
  acceptHdr,         \* what is left to read
  accept, accepts,   \* the entry being read, those read
  pc,
  served             \* the serializer: its media type's index, its addition

vars == <<request, routeSerializers, added, acceptHdr, accept, accepts, pc, served>>

Init ==
  /\ request \in Requests
  /\ routeSerializers = <<>> /\ added = 0
  /\ acceptHdr = <<>> /\ accept = None /\ accepts = <<>>
  /\ pc = "construct" /\ served = None

-----------------------------------------------------------------------------
(* The route's constructor.                                                *)

Put(f, k, v) == [m \in DOMAIN f \cup {k} |-> IF m = k THEN v ELSE f[m]]

AddDefaultSerializers ==
  /\ pc = "construct"
  /\ routeSerializers' = IF request.defaults THEN [m \in Globals |-> 0] ELSE routeSerializers
  /\ pc' = "add"
  /\ UNCHANGED <<request, added, acceptHdr, accept, accepts, served>>

(* Mutated form: emplace alone, which leaves what is there. *)
AddRouteSerializerKept ==
  /\ pc = "add" /\ added < Len(request.own)
  /\ added' = added + 1
  /\ routeSerializers' = IF request.own[added'] \in DOMAIN routeSerializers THEN routeSerializers
                         ELSE Put(routeSerializers, request.own[added'], added')
  /\ UNCHANGED <<request, acceptHdr, accept, accepts, pc, served>>

addRouteSerializer ==
  /\ pc = "add" /\ added < Len(request.own)
  /\ added' = added + 1
  /\ routeSerializers' = Put(routeSerializers, request.own[added'], added')
  /\ UNCHANGED <<request, acceptHdr, accept, accepts, pc, served>>

-----------------------------------------------------------------------------
(* Reading the header.                                                     *)

Least(S) == CHOOSE j \in S : \A h \in S : j <= h
Greatest(S) == CHOOSE j \in S : \A h \in S : j >= h

Others(input, chr) == {j \in DOMAIN input : input[j] # chr}

(* Of a text of nothing else they remove nothing. *)
remove_leading(input, chr) ==
  IF Others(input, chr) = {} THEN input ELSE SubSeq(input, Least(Others(input, chr)), Len(input))
remove_trailing(input, chr) ==
  IF Others(input, chr) = {} THEN input ELSE SubSeq(input, 1, Greatest(Others(input, chr)))

(* The text up to one of the marks, which of them it is, and the rest. *)
upto(text, marks, req) ==
  LET input == remove_leading(text, " ")
      ends  == {j \in DOMAIN input : input[j] \in marks}
      end   == IF ends = {} THEN Len(input) + 1 ELSE Least(ends)
      val   == remove_trailing(SubSeq(input, 1, end - 1), " ")
  IN [ok   |-> val # <<>> /\ (req => ends # {}),
      val  |-> val,
      term |-> IF ends = {} THEN "\n" ELSE input[end],
      rest |-> SubSeq(input, end + 1, Len(input))]

Refuse ==
  /\ pc' = "Http400BadRequest"
  /\ UNCHANGED <<acceptHdr, accept, accepts>>

(* What a range or a parameter leaves: more parameters, or a whole entry. *)
GoOn(entry, upto_) ==
  /\ accept' = entry
  /\ acceptHdr' = upto_.rest
  /\ IF upto_.term = ";" THEN pc' = "parameter" /\ UNCHANGED accepts
     ELSE pc' = "range" /\ accepts' = Append(accepts, entry)

getSerializer ==
  /\ pc = "add" /\ added = Len(request.own)
  /\ IF request.text = None
     THEN served' = [type |-> Json, by |-> 0] /\ pc' = "served" /\ UNCHANGED acceptHdr
     ELSE /\ UNCHANGED served
          /\ acceptHdr' = remove_leading(request.text, " ")
          /\ pc' = IF acceptHdr' = <<>> THEN "Http400BadRequest" ELSE "range"
  /\ UNCHANGED <<request, routeSerializers, added, accept, accepts>>

ReadRange ==
  /\ pc = "range" /\ acceptHdr # <<>>
  /\ LET group == upto(acceptHdr, {"/"}, TRUE)
         type  == upto(group.rest, {";", ","}, FALSE)
     IN IF group.ok /\ type.ok /\ (group.val = Any => type.val = Any)
        THEN GoOn([group |-> group.val, type |-> type.val, q |-> 10], type)
        ELSE Refuse
  /\ UNCHANGED <<request, routeSerializers, added, served>>

(* convert: from_chars reads the number at the beginning, which is one token *)
(* whole; out of range is what compares as such, which NaN does not.        *)
Quality(text) == Number[Head(text)]
Convertible(text) == Head(text) \in DOMAIN Number

(* Mutated form: 1 is out of range too. *)
OutOfRangeFromOne(q) == q # NaN /\ (q <= 0 \/ q >= 10)

OutOfRange(q) == q # NaN /\ (q <= 0 \/ q > 10)

(* Mutated form: a quality is read from a copy. *)
ReadParameterCopy ==
  /\ pc = "parameter"
  /\ LET name  == upto(acceptHdr, {"="}, TRUE)
         value == upto(name.rest, {",", ";"}, FALSE)
     IN IF ~name.ok \/ ~value.ok THEN Refuse
        ELSE IF name.val # <<"q">> THEN GoOn(accept, value)
        ELSE IF ~Convertible(value.val) THEN Refuse
        ELSE IF OutOfRange(Quality(value.val)) THEN Refuse
        ELSE GoOn([accept EXCEPT !.q = Quality(value.val)], [value EXCEPT !.rest = acceptHdr])
  /\ UNCHANGED <<request, routeSerializers, added, served>>

ReadParameter ==
  /\ pc = "parameter"
  /\ LET name  == upto(acceptHdr, {"="}, TRUE)
         value == upto(name.rest, {",", ";"}, FALSE)
     IN IF ~name.ok \/ ~value.ok THEN Refuse
        ELSE IF name.val # <<"q">> THEN GoOn(accept, value)
        ELSE IF ~Convertible(value.val) THEN Refuse
        ELSE IF OutOfRange(Quality(value.val)) THEN Refuse
        ELSE GoOn([accept EXCEPT !.q = Quality(value.val)], value)
  /\ UNCHANGED <<request, routeSerializers, added, served>>

-----------------------------------------------------------------------------
(* Choosing.                                                               *)

Orders(n) == {p \in [1..n -> 1..n] : \A k \in 1..n : \E j \in 1..n : p[j] = k}

(* Mutated form: entries of one q in reverse order. *)
UnstableOrders(s) == {p \in Orders(Len(s)) : \A a, b \in DOMAIN s : a < b =>
  s[p[a]].q > s[p[b]].q \/ (s[p[a]].q = s[p[b]].q /\ p[a] > p[b])}

(* stable_sort by falling q.  A NaN is neither before nor behind anything,  *)
(* which the sort does not allow: the order is then any.                    *)
Before(s, a, b) == s[a].q > s[b].q \/ (s[a].q = s[b].q /\ a < b)
StableOrders(s) == IF \E j \in DOMAIN s : s[j].q = NaN THEN Orders(Len(s))
  ELSE {p \in Orders(Len(s)) : \A a, b \in DOMAIN s : a < b => Before(s, p[a], p[b])}

Sort ==
  /\ pc = "range" /\ acceptHdr = <<>>
  /\ \E p \in StableOrders(accepts) : accepts' = [j \in DOMAIN accepts |-> accepts[p[j]]]
  /\ pc' = "choose"
  /\ UNCHANGED <<request, routeSerializers, added, acceptHdr, accept, served>>

Matches(entry, m) ==
  entry.group \in {Any, Catalogue[m].group} /\ entry.type \in {Any, Catalogue[m].type}

(* IRouteHandler::getSerializer finds one of these, the first. *)
Matching(entry) == {m \in DOMAIN routeSerializers : Matches(entry, m)}

AnythingFirst == accepts[1].group = Any /\ accepts[1].type = Any

Choose ==
  /\ pc = "choose"
  /\ LET hits == {j \in DOMAIN accepts : Matching(accepts[j]) # {}} IN
     IF AnythingFirst THEN served' = [type |-> Json, by |-> 0] /\ pc' = "served"
     ELSE IF hits = {} THEN pc' = "Http406NotAcceptable" /\ UNCHANGED served
     ELSE LET m == Least(Matching(accepts[Least(hits)])) IN
          served' = [type |-> m, by |-> routeSerializers[m]] /\ pc' = "served"
  /\ UNCHANGED <<request, routeSerializers, added, acceptHdr, accept, accepts>>

Ended == pc \in {"served", "Http400BadRequest", "Http406NotAcceptable"}

(* The only states without a next step are those of an answer. *)
Answered == Ended /\ UNCHANGED vars

Next == \/ AddDefaultSerializers \/ addRouteSerializer
        \/ getSerializer \/ ReadRange \/ ReadParameter
        \/ Sort \/ Choose \/ Answered

Spec == Init /\ [][Next]_vars

-----------------------------------------------------------------------------
(* Properties.                                                             *)

wanted == request.wanted
Read == wanted # None /\ request.text # None

(* Of a header that is written as it should be, whatever its spaces and     *)
(* parameters, exactly the entries it was written from are read, in their   *)
(* order and with their qualities.                                          *)
ReadAsWritten == Read /\ pc = "range" /\ acceptHdr = <<>> => accepts = wanted

(* The entry a well-written header wants most.                              *)
Top == CHOOSE a \in DOMAIN wanted : \A b \in DOMAIN wanted \ {a} : Before(wanted, a, b)

(* Of a header that is written as it should be, whatever its spaces and     *)
(* parameters, the answer is what the entry wanted most of all that the     *)
(* route can serve asks for; the answer is 406 only if the route can serve  *)
(* none; and when anything at all is wanted most, it is the global JSON.    *)
BestServed ==
  /\ Read /\ pc = "served" =>
       IF wanted[Top].group = Any /\ wanted[Top].type = Any THEN served = [type |-> Json, by |-> 0]
       ELSE \E a \in DOMAIN wanted :
              /\ served.type \in Matching(wanted[a])
              /\ \A b \in DOMAIN wanted : Before(wanted, b, a) => Matching(wanted[b]) = {}
  /\ Read /\ pc = "Http406NotAcceptable" => \A a \in DOMAIN wanted : Matching(wanted[a]) = {}

(* A header that is written as it should be is never answered with 400. *)
NeverRefused == Read => pc # "Http400BadRequest"

(* A route's own serializer, and of several the one added last, replaces    *)
(* the global one of its media type; a type that neither the route nor (if  *)
(* the route takes the defaults) the globals know is not served, except the *)
(* JSON for those who take anything.                                        *)
OwnServed ==
  LET own == {j \in DOMAIN request.own : request.own[j] = served.type} IN
  pc = "served" /\ request.text # None /\ ~AnythingFirst =>
    IF own # {} THEN served.by = Greatest(own) ELSE request.defaults /\ served.by = 0 /\ served.type \in Globals

(* Whatever the header is, its reading ends: every step of the loops leaves  *)
(* less of it to read, and no step is missing on the way to an answer.      *)
ReadingEnds == [][
  {pc, pc'} \subseteq {"range", "parameter"} => Len(acceptHdr') < Len(acceptHdr)]_vars

=============================================================================
