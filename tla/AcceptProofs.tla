----------------------------- MODULE AcceptProofs -----------------------------
(***************************************************************************)
(* What is proved of content negotiation, for every catalogue and all      *)
(* requests.  TypeInv gives the shape of the state; OwnInv relates the     *)
(* route's serializers to the additions so far, and the one that serves to *)
(* them; ReadInv says behind which of its parts the reading of a header    *)
(* that is written as it should be can stand, and what has been read then; *)
(* ChosenInv says in which order its entries are asked for, and that the   *)
(* first that any serializer is for decides.  What the minimum and maximum *)
(* of a set of positions are comes from the well-foundedness of the        *)
(* natural numbers.                                                        *)
(***************************************************************************)
EXTENDS Accept, SequenceTheorems, WellFoundedInduction, TLAPS

Texts == Seq(Tokens)
Entry == [group : Texts, type : Texts, q : Nat]

(* The shape of what is read and chosen from. *)
TypeInv ==
  /\ request \in Requests
  /\ added \in 0..Len(request.own)
  /\ DOMAIN routeSerializers \subseteq DOMAIN Catalogue
  /\ accepts \in Seq(Entry)
  /\ pc \in {"range", "parameter"} => acceptHdr \in Texts
  /\ pc = "parameter" => accept \in Entry

-----------------------------------------------------------------------------
(* The least and the greatest of some numbers.                             *)

LEMMA LeastOfSome ==
  ASSUME NEW S, S \subseteq Nat, S # {}
  PROVE  Least(S) \in S /\ \A h \in S : Least(S) <= h
<1> DEFINE Less == OpToRel(<, Nat)
<1>1. IsWellFoundedOn(Less, Nat)
  BY NatLessThanWellFounded
<1>2. \A x, y \in Nat : <<y, x>> \in Less <=> y < x
  BY DEF OpToRel
<1> HIDE DEF Less
<1>3. PICK x \in S : \A y \in S : ~(<<y, x>> \in Less)
  BY <1>1, WFMin
<1>4. ASSUME NEW h \in S PROVE x <= h
  <2>1. x \in Nat /\ h \in Nat
    OBVIOUS
  <2>2. ~(h < x)
    BY <1>2, <1>3, <2>1
  <2> QED BY <2>1, <2>2
<1> QED BY <1>4 DEF Least

LEMMA GreatestOfSome ==
  ASSUME NEW n \in Nat, NEW S, S \subseteq 1..n, S # {}
  PROVE  Greatest(S) \in S /\ \A h \in S : Greatest(S) >= h
<1> DEFINE mirror == {n - j : j \in S}
<1>1. Least(mirror) \in mirror /\ \A h \in mirror : Least(mirror) <= h
  <2>1. mirror \subseteq Nat /\ mirror # {}
    <3>1. \A j \in S : n - j \in Nat
      OBVIOUS
    <3> QED BY <3>1
  <2> HIDE DEF mirror
  <2> QED BY <2>1, LeastOfSome
<1>2. PICK x \in S : Least(mirror) = n - x
  BY <1>1
<1>3. ASSUME NEW h \in S PROVE x >= h
  <2>1. n - x <= n - h
    BY <1>1, <1>2
  <2> QED BY <2>1
<1> QED BY <1>3 DEF Greatest

-----------------------------------------------------------------------------
(* What the reading of a text leaves.                                      *)

LEMMA RemoveLeading ==
  ASSUME NEW input \in Texts, NEW chr
  PROVE  /\ remove_leading(input, chr) \in Texts
         /\ Len(remove_leading(input, chr)) <= Len(input)
<1>1. CASE Others(input, chr) = {}
  BY <1>1 DEF remove_leading, Texts
<1>2. CASE Others(input, chr) # {}
  <2>1. Others(input, chr) \subseteq 1..Len(input)
    BY DEF Others, Texts
  <2>2. Least(Others(input, chr)) \in 1..Len(input)
    BY <1>2, <2>1, LeastOfSome
  <2>3. \A i \in Least(Others(input, chr))..Len(input) : input[i] \in Tokens
    BY <2>2 DEF Texts
  <2> QED BY <1>2, <2>2, <2>3, SubSeqProperties DEF remove_leading, Texts
<1> QED BY <1>1, <1>2

LEMMA RemoveTrailing ==
  ASSUME NEW input \in Texts, NEW chr
  PROVE  /\ remove_trailing(input, chr) \in Texts
         /\ input = <<>> => remove_trailing(input, chr) = <<>>
<1>1. CASE Others(input, chr) = {}
  BY <1>1 DEF remove_trailing
<1>2. CASE Others(input, chr) # {}
  <2>1. Others(input, chr) \subseteq 1..Len(input) /\ Len(input) \in Nat
    BY DEF Others, Texts
  <2>2. Greatest(Others(input, chr)) \in 1..Len(input)
    BY <1>2, <2>1, GreatestOfSome
  <2>3. \A i \in 1..Greatest(Others(input, chr)) : input[i] \in Tokens
    BY <2>2 DEF Texts
  <2>4. input # <<>>
    BY <2>2
  <2> QED BY <1>2, <2>2, <2>3, <2>4, SubSeqProperties DEF remove_trailing, Texts
<1> QED BY <1>1, <1>2

(* A part that is not refused is not empty, and what follows it is shorter *)
(* than the text it was taken from.                                        *)
LEMMA UptoShortens ==
  ASSUME NEW text \in Texts, NEW marks, NEW req \in BOOLEAN
  PROVE  /\ upto(text, marks, req).val \in Texts
         /\ upto(text, marks, req).rest \in Texts
         /\ upto(text, marks, req).ok =>
              upto(text, marks, req).val # <<>> /\ Len(upto(text, marks, req).rest) < Len(text)
<1> DEFINE input == remove_leading(text, " ")
           ends  == {j \in DOMAIN input : input[j] \in marks}
           end   == IF ends = {} THEN Len(input) + 1 ELSE Least(ends)
           piece == SubSeq(input, 1, end - 1)
           rest  == SubSeq(input, end + 1, Len(input))
<1>1. input \in Texts /\ Len(input) <= Len(text) /\ Len(input) \in Nat /\ Len(text) \in Nat
  <2>1. input \in Texts /\ Len(input) <= Len(text)
    BY RemoveLeading
  <2> HIDE DEF input
  <2> QED BY <2>1 DEF Texts
<1> HIDE DEF input
<1>2. end \in 1..(Len(input) + 1)
  <2>1. ends \subseteq 1..Len(input)
    BY <1>1 DEF Texts
  <2>2. CASE ends # {}
    <3>1. Least(ends) \in ends
      <4> HIDE DEF ends
      <4>1. ends \subseteq Nat
        BY <1>1, <2>1
      <4> QED BY <2>2, <4>1, LeastOfSome
    <3>2. Least(ends) \in 1..Len(input)
      BY <2>1, <3>1
    <3> QED BY <1>1, <2>2, <3>2
  <2>3. CASE ends = {}
    BY <1>1, <2>3
  <2> QED BY <2>2, <2>3
<1>3. upto(text, marks, req) = [ok |-> remove_trailing(piece, " ") # <<>> /\ (req => ends # {}),
                                val |-> remove_trailing(piece, " "),
                                term |-> IF ends = {} THEN "\n" ELSE input[end],
                                rest |-> rest]
  BY DEF upto, input
<1> HIDE DEF end
<1>4. piece \in Texts /\ Len(piece) = end - 1
  <2>1. \A i \in 1..(end - 1) : input[i] \in Tokens
    BY <1>1, <1>2 DEF Texts
  <2>2. 1 \in Int /\ end - 1 \in Int
    BY <1>1, <1>2
  <2> QED BY <1>1, <1>2, <2>1, <2>2, SubSeqProperties DEF Texts
<1>5. rest \in Texts /\ Len(rest) = IF end + 1 <= Len(input) THEN Len(input) - end ELSE 0
  <2>1. \A i \in (end + 1)..Len(input) : input[i] \in Tokens
    BY <1>1, <1>2 DEF Texts
  <2>2. Len(input) \in Int /\ end + 1 \in Int
    BY <1>1, <1>2
  <2>3. rest \in Seq(Tokens) /\ Len(rest) = IF end + 1 <= Len(input) THEN Len(input) - (end + 1) + 1 ELSE 0
    BY <2>1, <2>2, SubSeqProperties
  <2> QED BY <1>1, <1>2, <2>3 DEF Texts
<1> HIDE DEF piece, rest, ends
<1>6. ASSUME remove_trailing(piece, " ") # <<>> PROVE Len(rest) < Len(text)
  <2>1. piece # <<>>
    BY <1>4, <1>6, RemoveTrailing
  <2>2. end >= 2
    BY <1>2, <1>4, <2>1 DEF Texts
  <2> QED BY <1>1, <1>2, <1>5, <2>2
<1>7. remove_trailing(piece, " ") \in Texts
  BY <1>4, RemoveTrailing
<1> DEFINE val == remove_trailing(piece, " ")
           found == upto(text, marks, req)
<1>8. found.val = val /\ found.rest = rest /\ (found.ok => val # <<>>)
  <2> HIDE DEF found, val
  <2>1. found = [ok   |-> val # <<>> /\ (req => ends # {}), val  |-> val,
                 term |-> IF ends = {} THEN "\n" ELSE input[end], rest |-> rest]
    BY <1>3 DEF found, val
  <2>2. found.val = val /\ found.rest = rest
    BY <2>1
  <2>3. found.ok = (val # <<>> /\ (req => ends # {}))
    BY <2>1, Zenon
  <2> QED BY <2>2, <2>3
<1>9. found.val \in Texts /\ found.rest \in Texts
  BY <1>5, <1>7, <1>8
<1>10. found.ok => found.val # <<>> /\ Len(found.rest) < Len(text)
  BY <1>6, <1>8
<1> QED BY <1>9, <1>10

-----------------------------------------------------------------------------
(* Types.                                                                  *)

LEMMA GoOnTyped ==
  ASSUME accepts \in Seq(Entry), NEW entry \in Entry, NEW rest, rest.rest \in Texts, GoOn(entry, rest)
  PROVE  /\ accepts' \in Seq(Entry) /\ accept' \in Entry /\ acceptHdr' \in Texts
         /\ acceptHdr' = rest.rest /\ pc' \in {"range", "parameter"}
<1>1. accepts' = accepts \/ accepts' = Append(accepts, entry)
  BY DEF GoOn
<1>2. Append(accepts, entry) \in Seq(Entry)
  BY AppendProperties
<1> QED BY <1>1, <1>2 DEF GoOn

LEMMA ReadRangeFacts ==
  ASSUME TypeInv, ReadRange
  PROVE  /\ accepts' \in Seq(Entry)
         /\ pc' = "Http400BadRequest" \/ pc' \in {"range", "parameter"}
         /\ pc' \in {"range", "parameter"} =>
              accept' \in Entry /\ acceptHdr' \in Texts /\ Len(acceptHdr') < Len(acceptHdr)
<1> DEFINE group == upto(acceptHdr, {"/"}, TRUE)
           type  == upto(group.rest, {";", ","}, FALSE)
<1>1. acceptHdr \in Texts /\ accepts \in Seq(Entry)
  BY DEF ReadRange, TypeInv
<1>2. /\ group.val \in Texts /\ group.rest \in Texts
      /\ group.ok => Len(group.rest) < Len(acceptHdr)
  BY <1>1, UptoShortens
<1> HIDE DEF group
<1>3. /\ type.val \in Texts /\ type.rest \in Texts
      /\ type.ok => Len(type.rest) < Len(group.rest)
  BY <1>2, UptoShortens
<1> HIDE DEF type
<1>4. CASE group.ok /\ type.ok /\ (group.val = Any => type.val = Any)
  <2> DEFINE entry == [group |-> group.val, type |-> type.val, q |-> 10]
  <2>1. entry \in Entry /\ GoOn(entry, type)
    BY <1>2, <1>3, <1>4 DEF ReadRange, group, type, Entry
  <2> HIDE DEF entry
  <2>2. Len(type.rest) < Len(acceptHdr)
    BY <1>1, <1>2, <1>3, <1>4 DEF Texts
  <2> QED BY <1>1, <1>3, <2>1, <2>2, GoOnTyped
<1>5. CASE ~(group.ok /\ type.ok /\ (group.val = Any => type.val = Any))
  BY <1>1, <1>5 DEF ReadRange, Refuse, group, type
<1> QED BY <1>4, <1>5

LEMMA ReadParameterFacts ==
  ASSUME TypeInv, ReadParameter
  PROVE  /\ accepts' \in Seq(Entry)
         /\ pc' = "Http400BadRequest" \/ pc' \in {"range", "parameter"}
         /\ pc' \in {"range", "parameter"} =>
              accept' \in Entry /\ acceptHdr' \in Texts /\ Len(acceptHdr') < Len(acceptHdr)
<1> DEFINE name  == upto(acceptHdr, {"="}, TRUE)
           value == upto(name.rest, {",", ";"}, FALSE)
<1>1. acceptHdr \in Texts /\ accepts \in Seq(Entry) /\ accept \in Entry
  BY DEF ReadParameter, TypeInv
<1>2. /\ name.rest \in Texts
      /\ name.ok => Len(name.rest) < Len(acceptHdr)
  BY <1>1, UptoShortens
<1> HIDE DEF name
<1>3. /\ value.val \in Texts /\ value.rest \in Texts
      /\ value.ok => Len(value.rest) < Len(name.rest)
  BY <1>2, UptoShortens
<1> HIDE DEF value
<1>4. \/ Refuse
      \/ name.ok /\ value.ok /\ GoOn(accept, value)
      \/ /\ name.ok /\ value.ok /\ Convertible(value.val)
         /\ GoOn([accept EXCEPT !.q = Quality(value.val)], value)
  BY DEF ReadParameter, name, value
<1>5. CASE Refuse
  BY <1>1, <1>5 DEF Refuse
<1>6. ASSUME name.ok, value.ok, NEW entry \in Entry, GoOn(entry, value)
      PROVE  /\ accepts' \in Seq(Entry) /\ accept' \in Entry /\ acceptHdr' \in Texts
             /\ pc' \in {"range", "parameter"} /\ Len(acceptHdr') < Len(acceptHdr)
  <2>1. Len(value.rest) < Len(acceptHdr)
    BY <1>1, <1>2, <1>3, <1>6 DEF Texts
  <2> QED BY <1>1, <1>3, <1>6, <2>1, GoOnTyped
<1>7. Convertible(value.val) => [accept EXCEPT !.q = Quality(value.val)] \in Entry
  <2>1. Convertible(value.val) => Quality(value.val) \in Nat
    BY DEF Convertible, Quality, Number, NaN
  <2> QED BY <1>1, <2>1 DEF Entry
<1> QED BY <1>1, <1>4, <1>5, <1>6, <1>7

LEMMA RequestFacts ==
  ASSUME request \in Requests
  PROVE  /\ request.own \in Seq(DOMAIN Catalogue) /\ Len(request.own) \in Nat
         /\ request.text # None => request.text \in Texts
<1>1. request.own \in Seq(DOMAIN Catalogue)
  BY RequestsAssumption
<1>2. request.text # None => request.text \in Seq(Tokens)
  BY RequestsAssumption
<1>3. Len(request.own) \in Nat
  BY <1>1, LenProperties
<1> QED BY <1>1, <1>2, <1>3 DEF Texts

LEMMA InitTypeInv == Init => TypeInv
  BY CatalogueAssumption DEF Init, TypeInv

LEMMA StepTypeInv ==
  ASSUME TypeInv, [Next]_vars
  PROVE  TypeInv'
<1>1. request.own \in Seq(DOMAIN Catalogue) /\ Len(request.own) \in Nat
  BY RequestFacts DEF TypeInv
<1>2. CASE AddDefaultSerializers
  BY <1>2, CatalogueAssumption DEF AddDefaultSerializers, TypeInv
<1>3. CASE addRouteSerializer
  BY <1>1, <1>3 DEF addRouteSerializer, TypeInv, Put
<1>4. CASE getSerializer
  <2>1. request.text # None => remove_leading(request.text, " ") \in Texts
    BY RequestFacts, RemoveLeading DEF TypeInv
  <2> QED BY <1>4, <2>1 DEF getSerializer, TypeInv
<1>5. CASE ReadRange
  BY <1>5, ReadRangeFacts DEF ReadRange, TypeInv
<1>6. CASE ReadParameter
  BY <1>6, ReadParameterFacts DEF ReadParameter, TypeInv
<1>7. CASE Sort
  <2>1. PICK p \in StableOrders(accepts) : accepts' = [j \in DOMAIN accepts |-> accepts[p[j]]]
    BY <1>7 DEF Sort
  <2>2. accepts \in Seq(Entry) /\ p \in [1..Len(accepts) -> 1..Len(accepts)]
    BY <2>1 DEF StableOrders, Orders, TypeInv
  <2>3. accepts' \in [1..Len(accepts) -> Entry]
    BY <2>1, <2>2
  <2>4. accepts' \in Seq(Entry)
    <3> DEFINE sorted == [j \in DOMAIN accepts |-> accepts[p[j]]]
    <3>1. sorted \in [1..Len(accepts) -> Entry] /\ Len(accepts) \in Nat
      BY <2>1, <2>2, <2>3
    <3> HIDE DEF sorted
    <3>2. sorted \in Seq(Entry)
      BY <3>1
    <3> QED BY <2>1, <3>2 DEF sorted
  <2> QED BY <1>7, <2>4 DEF Sort, TypeInv
<1>8. CASE Choose
  BY <1>8 DEF Choose, TypeInv
<1>9. CASE Answered \/ UNCHANGED vars
  BY <1>9 DEF Answered, vars, TypeInv
<1> QED BY <1>2, <1>3, <1>4, <1>5, <1>6, <1>7, <1>8, <1>9 DEF Next

(* Every step of reading a header leaves less of it, whatever it is. *)
THEOREM HeaderReadToItsEnd == Spec => ReadingEnds
<1>1. TypeInv /\ [Next]_vars =>
        [{pc, pc'} \subseteq {"range", "parameter"} => Len(acceptHdr') < Len(acceptHdr)]_vars
  <2> SUFFICES ASSUME TypeInv, [Next]_vars, {pc, pc'} \subseteq {"range", "parameter"},
                      ~UNCHANGED vars
               PROVE  Len(acceptHdr') < Len(acceptHdr)
    OBVIOUS
  <2>1. CASE ReadRange
    BY <2>1, ReadRangeFacts
  <2>2. CASE ReadParameter
    BY <2>2, ReadParameterFacts
  <2> QED BY <2>1, <2>2 DEF Next, AddDefaultSerializers, addRouteSerializer, getSerializer, Sort,
                            Choose, Answered
<1> QED BY <1>1, InitTypeInv, StepTypeInv, PTL DEF Spec, ReadingEnds

-----------------------------------------------------------------------------
(* The route's serializers.                                                *)

(* The additions of a media type, so far. *)
Additions(m) == {j \in 1..added : request.own[j] = m}

OwnInv ==
  /\ pc = "construct" => added = 0 /\ routeSerializers = <<>>
  /\ pc \notin {"construct", "add"} => added = Len(request.own)
  /\ \A m \in DOMAIN routeSerializers :
       IF Additions(m) # {}
       THEN routeSerializers[m] \in Additions(m) /\ \A h \in Additions(m) : routeSerializers[m] >= h
       ELSE request.defaults /\ m \in Globals /\ routeSerializers[m] = 0
  /\ pc = "served" /\ request.text # None /\ ~AnythingFirst =>
       served.type \in DOMAIN routeSerializers /\ served.by = routeSerializers[served.type]

LEMMA InitOwnInv == Init => OwnInv
  BY DEF Init, OwnInv

LEMMA ChosenServed ==
  ASSUME TypeInv, Choose, pc' = "served", ~AnythingFirst
  PROVE  served'.type \in DOMAIN routeSerializers /\ served'.by = routeSerializers[served'.type]
<1> DEFINE hits == {j \in DOMAIN accepts : Matching(accepts[j]) # {}}
           m == Least(Matching(accepts[Least(hits)]))
<1>1. hits # {} /\ served' = [type |-> m, by |-> routeSerializers[m]]
  BY DEF Choose
<1>2. Least(hits) \in hits
  <2>1. hits \subseteq Nat
    BY DEF TypeInv
  <2> HIDE DEF hits
  <2> QED BY <1>1, <2>1, LeastOfSome
<1>3. m \in Matching(accepts[Least(hits)])
  <2>1. Matching(accepts[Least(hits)]) # {}
    BY <1>2
  <2> HIDE DEF hits
  <2>2. Matching(accepts[Least(hits)]) \subseteq Nat
    BY CatalogueAssumption DEF Matching, TypeInv
  <2> QED BY <2>1, <2>2, LeastOfSome
<1> HIDE DEF m
<1> QED BY <1>1, <1>3 DEF Matching

LEMMA StepOwnInv ==
  ASSUME TypeInv, OwnInv, [Next]_vars
  PROVE  OwnInv'
<1>1. request.own \in Seq(DOMAIN Catalogue) /\ Len(request.own) \in Nat /\ added \in 0..Len(request.own)
  BY RequestFacts DEF TypeInv
<1>2. CASE AddDefaultSerializers
  BY <1>2 DEF AddDefaultSerializers, OwnInv, Additions
<1>3. CASE addRouteSerializer
  <2> DEFINE k == request.own[added']
  <2>1. /\ added' = added + 1 /\ request' = request /\ pc = "add" /\ pc' = "add"
        /\ routeSerializers' = Put(routeSerializers, k, added')
    BY <1>3 DEF addRouteSerializer
  <2>2. \A m : Additions(m)' = IF m = k THEN Additions(m) \cup {added'} ELSE Additions(m)
    BY <1>1, <2>1 DEF Additions
  <2>3. \A m : \A h \in Additions(m) : h <= added
    BY <1>1 DEF Additions
  <2>4. ASSUME NEW m \in DOMAIN routeSerializers'
        PROVE  IF Additions(m)' # {}
               THEN /\ routeSerializers'[m] \in Additions(m)'
                    /\ \A h \in Additions(m)' : routeSerializers'[m] >= h
               ELSE request'.defaults /\ m \in Globals /\ routeSerializers'[m] = 0
    <3>1. CASE m = k
      <4>1. routeSerializers'[m] = added' /\ Additions(m)' = Additions(m) \cup {added'}
        BY <2>1, <2>2, <3>1 DEF Put
      <4>2. \A h \in Additions(m) : h \in Nat
        BY DEF Additions
      <4> QED BY <1>1, <2>1, <2>3, <4>1, <4>2
    <3>2. CASE m # k
      <4>1. m \in DOMAIN routeSerializers /\ routeSerializers'[m] = routeSerializers[m]
            /\ Additions(m)' = Additions(m)
        BY <2>1, <2>2, <3>2 DEF Put
      <4> QED BY <2>1, <4>1 DEF OwnInv
    <3> QED BY <3>1, <3>2
  <2> QED BY <2>1, <2>4 DEF OwnInv
<1>4. CASE getSerializer \/ ReadRange \/ ReadParameter \/ Sort
  <2>1. /\ UNCHANGED <<request, routeSerializers, added>> /\ pc # "construct"
        /\ added = Len(request.own) /\ pc' # "construct"
    BY <1>4 DEF getSerializer, ReadRange, ReadParameter, Sort, OwnInv, GoOn, Refuse
  <2>2. pc' = "served" => request.text = None
    BY <1>4 DEF getSerializer, ReadRange, ReadParameter, Sort, GoOn, Refuse
  <2> QED BY <2>1, <2>2 DEF OwnInv, Additions
<1>5. CASE Choose
  <2>1. UNCHANGED <<request, routeSerializers, added, accepts>> /\ pc = "choose" /\ pc' # "construct"
    BY <1>5 DEF Choose
  <2>2. AnythingFirst' = AnythingFirst
    BY <2>1 DEF AnythingFirst
  <2> QED BY <1>5, <2>1, <2>2, ChosenServed DEF OwnInv, Additions
<1>6. CASE Answered \/ UNCHANGED vars
  BY <1>6 DEF Answered, vars, OwnInv, Additions, AnythingFirst
<1> QED BY <1>2, <1>3, <1>4, <1>5, <1>6 DEF Next

(* A route's own serializer, of several the one added last, goes before the *)
(* global one of its media type, and no other serves that type.             *)
THEOREM OwnSerializersServe == Spec => []OwnServed
<1>1. TypeInv /\ OwnInv => OwnServed
  <2> SUFFICES ASSUME TypeInv, OwnInv, pc = "served", request.text # None, ~AnythingFirst
               PROVE  LET own == {j \in DOMAIN request.own : request.own[j] = served.type} IN
                      IF own # {} THEN served.by = Greatest(own)
                      ELSE request.defaults /\ served.by = 0 /\ served.type \in Globals
    BY DEF OwnServed
  <2> DEFINE own == {j \in DOMAIN request.own : request.own[j] = served.type}
  <2>1. request.own \in Seq(DOMAIN Catalogue) /\ added = Len(request.own)
    BY RequestFacts DEF TypeInv, OwnInv
  <2>2. own = Additions(served.type) /\ own \subseteq Nat
    BY <2>1 DEF Additions
  <2>3. served.type \in DOMAIN routeSerializers /\ served.by = routeSerializers[served.type]
    BY DEF OwnInv
  <2>4. IF own # {} THEN served.by \in own /\ \A h \in own : served.by >= h
        ELSE request.defaults /\ served.type \in Globals /\ served.by = 0
    BY <2>2, <2>3 DEF OwnInv
  <2> HIDE DEF own
  <2>5. own # {} => served.by = Greatest(own)
    <3> SUFFICES ASSUME own # {} PROVE served.by = Greatest(own)
      OBVIOUS
    <3>1. Greatest(own) \in own /\ \A h \in own : Greatest(own) >= h
      BY <2>4 DEF Greatest
    <3>2. served.by >= Greatest(own) /\ Greatest(own) >= served.by
      BY <2>4, <3>1
    <3> QED BY <2>2, <2>4, <3>1, <3>2
  <2> QED BY <2>4, <2>5 DEF own
<1> QED BY <1>1, InitTypeInv, StepTypeInv, InitOwnInv, StepOwnInv, PTL DEF Spec

-----------------------------------------------------------------------------
(* What is chosen.                                                         *)

(* The entries in the order in which the route is asked for them. *)
Sorted == \E p \in StableOrders(wanted) : accepts = [j \in DOMAIN wanted |-> wanted[p[j]]]

(* The answer, in that order. *)
FirstServed ==
  \E j \in DOMAIN accepts : /\ served.type \in Matching(accepts[j])
                            /\ \A i \in DOMAIN accepts : i < j => Matching(accepts[i]) = {}

ChosenInv ==
  /\ Read /\ pc \in {"choose", "served", "Http406NotAcceptable"} => Sorted
  /\ Read /\ pc = "served" => IF AnythingFirst THEN served = [type |-> Json, by |-> 0] ELSE FirstServed
  /\ Read /\ pc = "Http406NotAcceptable" => \A j \in DOMAIN accepts : Matching(accepts[j]) = {}

LEMMA InitChosenInv == Init => ChosenInv
  BY DEF Init, ChosenInv

LEMMA ChoosesFirst ==
  ASSUME TypeInv, Choose
  PROVE  /\ pc' = "served" => IF AnythingFirst THEN served' = [type |-> Json, by |-> 0] ELSE FirstServed'
         /\ pc' = "Http406NotAcceptable" => \A j \in DOMAIN accepts : Matching(accepts[j]) = {}
<1> DEFINE hits == {j \in DOMAIN accepts : Matching(accepts[j]) # {}}
           m == Least(Matching(accepts[Least(hits)]))
<1>1. CASE AnythingFirst
  BY <1>1 DEF Choose
<1>2. CASE ~AnythingFirst /\ hits = {}
  BY <1>2 DEF Choose
<1>3. CASE ~AnythingFirst /\ hits # {}
  <2>1. served' = [type |-> m, by |-> routeSerializers[m]] /\ pc' = "served"
        /\ accepts' = accepts /\ routeSerializers' = routeSerializers
    BY <1>3 DEF Choose
  <2>2. hits \subseteq Nat
    BY DEF TypeInv
  <2>3. Least(hits) \in hits /\ \A h \in hits : Least(hits) <= h
    <3> HIDE DEF hits
    <3> QED BY <1>3, <2>2, LeastOfSome
  <2>4. m \in Matching(accepts[Least(hits)])
    <3>1. Matching(accepts[Least(hits)]) # {}
      BY <2>3
    <3> HIDE DEF hits
    <3>2. Matching(accepts[Least(hits)]) \subseteq Nat
      BY CatalogueAssumption DEF Matching, TypeInv
    <3> QED BY <3>1, <3>2, LeastOfSome
  <2> HIDE DEF m
  <2>5. \A i \in DOMAIN accepts : i < Least(hits) => Matching(accepts[i]) = {}
    <3>1. DOMAIN accepts \subseteq Nat
      BY DEF TypeInv
    <3>2. \A i \in DOMAIN accepts : i \notin hits => Matching(accepts[i]) = {}
      OBVIOUS
    <3>3. Least(hits) \in Nat
      BY <2>2, <2>3
    <3> HIDE DEF hits
    <3> QED BY <2>2, <2>3, <3>1, <3>2, <3>3
  <2>6. \A entry : Matching(entry)' = Matching(entry)
    BY <2>1 DEF Matching, Matches
  <2>7. served'.type = m /\ Least(hits) \in DOMAIN accepts
    BY <2>1, <2>3
  <2> HIDE DEF hits
  <2> QED BY <1>3, <2>1, <2>4, <2>5, <2>6, <2>7 DEF FirstServed
<1> QED BY <1>1, <1>2, <1>3

LEMMA StepChosenInv ==
  ASSUME TypeInv, ReadAsWritten, ChosenInv, [Next]_vars
  PROVE  ChosenInv'
<1>1. request' = request /\ wanted' = wanted /\ (Read' <=> Read)
  BY DEF Next, AddDefaultSerializers, addRouteSerializer, getSerializer, ReadRange, ReadParameter,
         Sort, Choose, Answered, vars, wanted, Read
<1>2. CASE AddDefaultSerializers \/ addRouteSerializer
  BY <1>2 DEF AddDefaultSerializers, addRouteSerializer, ChosenInv
<1>3. CASE getSerializer \/ ReadRange \/ ReadParameter
  <2>1. pc' = "served" => ~Read
    BY <1>3 DEF getSerializer, ReadRange, ReadParameter, GoOn, Refuse, Read
  <2>2. pc' \notin {"choose", "Http406NotAcceptable"}
    BY <1>3 DEF getSerializer, ReadRange, ReadParameter, GoOn, Refuse
  <2> QED BY <1>1, <2>1, <2>2 DEF ChosenInv
<1>4. CASE Sort
  <2>1. pc' = "choose"
    BY <1>4 DEF Sort
  <2>2. Read => Sorted'
    <3> SUFFICES ASSUME Read PROVE Sorted'
      OBVIOUS
    <3>1. accepts = wanted
      BY <1>4 DEF Sort, ReadAsWritten
    <3>2. PICK p \in StableOrders(accepts) : accepts' = [j \in DOMAIN accepts |-> accepts[p[j]]]
      BY <1>4 DEF Sort
    <3> QED BY <1>1, <3>1, <3>2 DEF Sorted
  <2> QED BY <1>1, <2>1, <2>2 DEF ChosenInv
<1>5. CASE Choose
  <2>1. pc = "choose" /\ accepts' = accepts /\ request' = request /\ routeSerializers' = routeSerializers
        /\ pc' \in {"served", "Http406NotAcceptable"}
    BY <1>5 DEF Choose
  <2>2. Read => Sorted'
    BY <1>1, <2>1 DEF ChosenInv, Sorted
  <2>3. AnythingFirst' = AnythingFirst
    BY <2>1 DEF AnythingFirst
  <2>4. \A entry : Matching(entry)' = Matching(entry)
    BY <2>1 DEF Matching, Matches
  <2>5. pc' = "served" => IF AnythingFirst' THEN served' = [type |-> Json, by |-> 0] ELSE FirstServed'
    BY <1>5, <2>3, ChoosesFirst
  <2>6. pc' = "Http406NotAcceptable" => (\A j \in DOMAIN accepts : Matching(accepts[j]) = {})'
    <3>1. pc' = "Http406NotAcceptable" => \A j \in DOMAIN accepts : Matching(accepts[j]) = {}
      BY <1>5, ChoosesFirst
    <3> QED BY <2>1, <2>4, <3>1
  <2>7. Read' => Read /\ Sorted'
    BY <1>1, <2>2
  <2>8. Read' /\ pc' \in {"choose", "served", "Http406NotAcceptable"} => Sorted'
    BY <2>7
  <2>9. Read' /\ pc' = "served" => IF AnythingFirst' THEN served' = [type |-> Json, by |-> 0] ELSE FirstServed'
    BY <2>5
  <2>10. Read' /\ pc' = "Http406NotAcceptable" => (\A j \in DOMAIN accepts : Matching(accepts[j]) = {})'
    BY <2>6
  <2> QED BY <2>8, <2>9, <2>10 DEF ChosenInv
<1>6. CASE Answered \/ UNCHANGED vars
  BY <1>6 DEF Answered, vars, ChosenInv, Sorted, FirstServed, AnythingFirst, Matching, Matches, Read, wanted
<1> QED BY <1>2, <1>3, <1>4, <1>5, <1>6 DEF Next

LEMMA WantedFacts ==
  ASSUME request \in Requests, Read
  PROVE  /\ wanted \in Seq([group : Texts, type : Texts, q : 1..10]) /\ wanted # <<>>
         /\ Len(wanted) \in Nat \ {0} /\ DOMAIN wanted = 1..Len(wanted)
<1>1. wanted \in Seq([group : Texts, type : Texts, q : 1..10]) /\ wanted # <<>>
  BY RequestsAssumption DEF wanted, Read, Texts
<1> HIDE DEF wanted
<1> QED BY <1>1

(* The order is one of all the entries, and no entry that is wanted more   *)
(* comes behind one that is wanted less.                                   *)
LEMMA OrderFacts ==
  ASSUME request \in Requests, Read, NEW p \in StableOrders(wanted)
  PROVE  /\ p \in [DOMAIN wanted -> DOMAIN wanted]
         /\ \A k \in DOMAIN wanted : \E j \in DOMAIN wanted : p[j] = k
         /\ \A i, j \in DOMAIN wanted : i < j => Before(wanted, p[i], p[j])
         /\ \A a, b \in DOMAIN wanted : Before(wanted, a, b) => ~Before(wanted, b, a) /\ a # b
<1>1. \A j \in DOMAIN wanted : wanted[j].q \in 1..10 /\ j \in Nat
  <2>1. /\ wanted \in Seq([group : Texts, type : Texts, q : 1..10])
        /\ Len(wanted) \in Nat /\ DOMAIN wanted = 1..Len(wanted)
    BY WantedFacts
  <2>2. \A j \in DOMAIN wanted : wanted[j] \in [group : Texts, type : Texts, q : 1..10]
    BY <2>1, ElementOfSeq
  <2> QED BY <2>1, <2>2
<1>2. ~\E j \in DOMAIN wanted : wanted[j].q = NaN
  BY <1>1 DEF NaN
<1>3. p \in Orders(Len(wanted)) /\ \A i, j \in DOMAIN wanted : i < j => Before(wanted, p[i], p[j])
  BY <1>2 DEF StableOrders
<1>4. \A a, b \in DOMAIN wanted : Before(wanted, a, b) => ~Before(wanted, b, a) /\ a # b
  BY <1>1 DEF Before
<1> QED BY <1>3, <1>4, WantedFacts DEF Orders

LEMMA TopFirst ==
  ASSUME request \in Requests, Read, NEW p \in StableOrders(wanted)
  PROVE  Top = p[1] /\ 1 \in DOMAIN wanted
<1>1. 1 \in DOMAIN wanted /\ DOMAIN wanted \subseteq Nat \ {0}
  BY WantedFacts
<1>2. ASSUME NEW b \in DOMAIN wanted \ {p[1]} PROVE Before(wanted, p[1], b)
  <2>1. PICK j \in DOMAIN wanted : p[j] = b
    BY OrderFacts
  <2>2. 1 < j
    BY <1>1, <1>2, <2>1
  <2> QED BY <1>1, <2>1, <2>2, OrderFacts
<1>3. ASSUME NEW a \in DOMAIN wanted, \A b \in DOMAIN wanted \ {a} : Before(wanted, a, b)
      PROVE  a = p[1]
  BY <1>1, <1>2, <1>3, OrderFacts
<1>4. p[1] \in DOMAIN wanted
  BY <1>1, OrderFacts
<1> QED BY <1>1, <1>2, <1>3, <1>4 DEF Top

-----------------------------------------------------------------------------
(* What remove_leading, remove_trailing and upto find of a word among spaces. *)

(* The provers take no literals among the tokens: this one has a name. *)
Blank == " "

LEMMA RunOf ==
  ASSUME NEW n \in Nat, NEW S, NEW s \in S
  PROVE  /\ [j \in 1..n |-> s] \in Seq(S) /\ Len([j \in 1..n |-> s]) = n
         /\ \A j \in 1..n : [k \in 1..n |-> s][j] = s
  OBVIOUS

LEMMA SeparatorsTyped == Separators \subseteq Tokens
  BY CatalogueAssumption

LEMMA SpacesTyped ==
  ASSUME NEW n \in Nat
  PROVE  /\ Spaces(n) \in Texts /\ Len(Spaces(n)) = n
         /\ \A j \in 1..n : Spaces(n)[j] = Blank
<1>1. Blank \in Tokens
  BY SeparatorsTyped DEF Separators, Blank
<1>2. Spaces(n) = [j \in 1..n |-> Blank]
  BY DEF Spaces, Blank
<1> QED BY <1>1, <1>2, RunOf DEF Texts

LEMMA ConcatParts ==
  ASSUME NEW S, NEW s \in Seq(S), NEW t \in Seq(S)
  PROVE  /\ s \o t \in Seq(S) /\ Len(s \o t) = Len(s) + Len(t)
         /\ \A j \in 1..Len(s) : (s \o t)[j] = s[j]
         /\ \A j \in 1..Len(t) : (s \o t)[Len(s) + j] = t[j]
  OBVIOUS

LEMMA SpacesBefore ==
  ASSUME NEW n \in Nat, NEW body \in Texts
  PROVE  /\ Spaces(n) \o body \in Texts /\ Len(Spaces(n) \o body) = n + Len(body)
         /\ \A j \in 1..n : (Spaces(n) \o body)[j] = Blank
         /\ \A j \in 1..Len(body) : (Spaces(n) \o body)[n + j] = body[j]
<1> DEFINE run == Spaces(n)
<1>1. run \in Texts /\ Len(run) = n /\ \A j \in 1..n : run[j] = Blank
  BY SpacesTyped
<1> HIDE DEF run
<1>2. /\ run \o body \in Seq(Tokens) /\ Len(run \o body) = Len(run) + Len(body)
      /\ \A j \in 1..Len(run) : (run \o body)[j] = run[j]
      /\ \A j \in 1..Len(body) : (run \o body)[Len(run) + j] = body[j]
  <2>1. run \in Seq(Tokens) /\ body \in Seq(Tokens)
    BY <1>1 DEF Texts
  <2> QED BY <2>1, ConcatParts
<1>3. /\ run \o body \in Texts /\ Len(run \o body) = n + Len(body)
      /\ \A j \in 1..n : (run \o body)[j] = Blank
      /\ \A j \in 1..Len(body) : (run \o body)[n + j] = body[j]
  BY <1>1, <1>2 DEF Texts
<1> QED BY <1>3 DEF run

LEMMA SpacesBehind ==
  ASSUME NEW n \in Nat, NEW body \in Texts
  PROVE  /\ body \o Spaces(n) \in Texts /\ Len(body \o Spaces(n)) = Len(body) + n
         /\ \A j \in 1..Len(body) : (body \o Spaces(n))[j] = body[j]
         /\ \A j \in 1..n : (body \o Spaces(n))[Len(body) + j] = Blank
<1> DEFINE run == Spaces(n)
<1>1. run \in Texts /\ Len(run) = n /\ \A j \in 1..n : run[j] = Blank
  BY SpacesTyped
<1> HIDE DEF run
<1>2. /\ body \o run \in Seq(Tokens) /\ Len(body \o run) = Len(body) + Len(run)
      /\ \A j \in 1..Len(body) : (body \o run)[j] = body[j]
      /\ \A j \in 1..Len(run) : (body \o run)[Len(body) + j] = run[j]
  <2>1. run \in Seq(Tokens) /\ body \in Seq(Tokens)
    BY <1>1 DEF Texts
  <2> QED BY <2>1, ConcatParts
<1>3. /\ body \o run \in Texts /\ Len(body \o run) = Len(body) + n
      /\ \A j \in 1..Len(body) : (body \o run)[j] = body[j]
      /\ \A j \in 1..n : (body \o run)[Len(body) + j] = Blank
  BY <1>1, <1>2 DEF Texts
<1> QED BY <1>3 DEF run

LEMMA LeadingGone ==
  ASSUME NEW n \in Nat, NEW body \in Texts, body # <<>>, body[1] # Blank
  PROVE  remove_leading(Spaces(n) \o body, Blank) = body
<1> DEFINE text == Spaces(n) \o body
<1>1. /\ text \in Texts /\ Len(text) = n + Len(body) /\ Len(body) \in Nat \ {0}
      /\ \A j \in 1..n : text[j] = Blank
      /\ \A j \in 1..Len(body) : text[n + j] = body[j]
  <2>1. Len(body) \in Nat \ {0}
    BY EmptySeq DEF Texts
  <2> QED BY <2>1, SpacesBefore
<1> HIDE DEF text
<1>2. Others(text, Blank) \subseteq Nat /\ n + 1 \in Others(text, Blank) /\ \A j \in Others(text, Blank) : n + 1 <= j
  BY <1>1 DEF Others, Texts
<1>3. Least(Others(text, Blank)) = n + 1
  <2>1. Least(Others(text, Blank)) \in Others(text, Blank) /\ \A h \in Others(text, Blank) : Least(Others(text, Blank)) <= h
    BY <1>2, LeastOfSome
  <2> QED BY <1>2, <2>1
<1>4. remove_leading(text, Blank) = SubSeq(text, n + 1, n + Len(body))
  BY <1>1, <1>2, <1>3 DEF remove_leading
<1>5. SubSeq(text, n + 1, n + Len(body)) = body
  <2> DEFINE part == SubSeq(text, n + 1, n + Len(body))
  <2>1. /\ part \in Seq(Tokens) /\ Len(part) = Len(body)
        /\ \A j \in 1..Len(body) : part[j] = text[n + 1 + j - 1]
    <3>1. \A j \in (n + 1)..(n + Len(body)) : text[j] \in Tokens
      BY <1>1 DEF Texts
    <3> QED BY <1>1, <3>1, SubSeqProperties
  <2> HIDE DEF part
  <2>2. \A j \in 1..Len(body) : part[j] = body[j]
    BY <1>1, <2>1
  <2> QED BY <2>1, <2>2, SeqEqual DEF Texts, part
<1> QED BY <1>4, <1>5 DEF text

LEMMA TrailingGone ==
  ASSUME NEW n \in Nat, NEW body \in Texts, body # <<>>, body[Len(body)] # Blank
  PROVE  remove_trailing(body \o Spaces(n), Blank) = body
<1> DEFINE text == body \o Spaces(n)
           m == Len(body)
<1>1. /\ text \in Texts /\ Len(text) = m + n /\ m \in Nat \ {0}
      /\ \A j \in 1..m : text[j] = body[j]
      /\ \A j \in 1..n : text[m + j] = Blank
  <2>1. m \in Nat \ {0}
    BY EmptySeq DEF Texts
  <2> QED BY <2>1, SpacesBehind
<1> HIDE DEF text
<1>2. Others(text, Blank) \subseteq 1..(m + n) /\ m \in Others(text, Blank)
  BY <1>1 DEF Others, Texts
<1>3. \A j \in Others(text, Blank) : j <= m
  <2> SUFFICES ASSUME NEW j \in Others(text, Blank), j > m PROVE FALSE
    BY <1>1, <1>2
  <2>1. j \in 1..(m + n) /\ text[j] # Blank
    BY <1>2 DEF Others
  <2>2. j - m \in 1..n /\ m + (j - m) = j
    BY <1>1, <2>1
  <2> QED BY <1>1, <2>1, <2>2
<1>4. Greatest(Others(text, Blank)) = m
  <2>1. Greatest(Others(text, Blank)) \in Others(text, Blank) /\ \A h \in Others(text, Blank) : Greatest(Others(text, Blank)) >= h
    <3>1. m + n \in Nat /\ Others(text, Blank) # {}
      BY <1>1, <1>2
    <3> QED BY <1>2, <3>1, GreatestOfSome
  <2> QED BY <1>1, <1>2, <1>3, <2>1
<1>5. remove_trailing(text, Blank) = SubSeq(text, 1, m)
  BY <1>2, <1>4 DEF remove_trailing
<1>6. SubSeq(text, 1, m) = body
  <2> DEFINE part == SubSeq(text, 1, m)
  <2>1. part \in Seq(Tokens) /\ Len(part) = m /\ \A j \in 1..m : part[j] = text[1 + j - 1]
    <3>1. \A j \in 1..m : text[j] \in Tokens
      BY <1>1 DEF Texts
    <3>2. 1 \in Int /\ m \in Int /\ 1 <= m /\ m - 1 + 1 = m
      BY <1>1
    <3> HIDE DEF m
    <3> QED BY <3>1, <3>2, SubSeqProperties
  <2> HIDE DEF part
  <2>2. \A j \in 1..m : part[j] = body[j]
    BY <1>1, <2>1
  <2> QED BY <2>1, <2>2, SeqEqual DEF Texts, part
<1> QED BY <1>5, <1>6 DEF text

(* What upto reads of a word with spaces round it, up to one of the marks. *)
LEMMA UptoReads ==
  ASSUME NEW b \in Nat, NEW a \in Nat, NEW w \in Texts, NEW tail \in Texts,
         NEW marks, NEW req \in BOOLEAN, w # <<>>, \A j \in 1..Len(w) : w[j] # Blank /\ w[j] \notin marks,
         Blank \notin marks,
         tail # <<>> => tail[1] \in marks, req => tail # <<>>
  PROVE  LET found == upto(Spaces(b) \o (w \o (Spaces(a) \o tail)), marks, req) IN
         /\ found.ok /\ found.val = w
         /\ tail = <<>> => found.term = "\n" /\ found.rest = <<>>
         /\ tail # <<>> => found.term = tail[1] /\ found.rest = Tail(tail)
<1> DEFINE text  == Spaces(b) \o (w \o (Spaces(a) \o tail))
           input == w \o (Spaces(a) \o tail)
           n     == Len(w)
           ends  == {j \in DOMAIN input : input[j] \in marks}
           end   == IF ends = {} THEN Len(input) + 1 ELSE Least(ends)
<1>1. n \in Nat \ {0} /\ \A j \in 1..n : w[j] # Blank /\ w[j] \notin marks
  BY EmptySeq DEF Texts
<1>2. Len(tail) \in Nat /\ \A j \in 1..Len(tail) : tail[j] \in Tokens
  BY DEF Texts
<1>3. /\ input \in Texts /\ Len(input) = n + a + Len(tail)
      /\ \A j \in 1..n : input[j] = w[j]
      /\ \A j \in 1..a : input[n + j] = Blank
      /\ \A j \in 1..Len(tail) : input[n + a + j] = tail[j]
  <2> DEFINE behind == Spaces(a) \o tail
  <2>1. /\ behind \in Texts /\ Len(behind) = a + Len(tail)
        /\ \A j \in 1..a : behind[j] = Blank
        /\ \A j \in 1..Len(tail) : behind[a + j] = tail[j]
    BY SpacesBefore
  <2> HIDE DEF behind
  <2>2. /\ w \o behind \in Seq(Tokens) /\ Len(w \o behind) = n + Len(behind)
        /\ \A j \in 1..n : (w \o behind)[j] = w[j]
        /\ \A j \in 1..Len(behind) : (w \o behind)[n + j] = behind[j]
    <3>1. w \in Seq(Tokens) /\ behind \in Seq(Tokens)
      BY <2>1 DEF Texts
    <3> QED BY <3>1, ConcatParts
  <2>3. input = w \o behind
    BY DEF behind
  <2> HIDE DEF input, n
  <2>4. ASSUME NEW j \in 1..a PROVE input[n + j] = Blank
    <3>1. j \in 1..Len(behind)
      BY <1>2, <2>1
    <3> QED BY <2>1, <2>2, <2>3, <3>1
  <2>5. ASSUME NEW j \in 1..Len(tail) PROVE input[n + a + j] = tail[j]
    <3>1. a + j \in 1..Len(behind) /\ n + a + j = n + (a + j)
      BY <1>1, <1>2, <2>1
    <3> QED BY <2>1, <2>2, <2>3, <3>1
  <2>6. Len(input) = n + a + Len(tail)
    BY <1>1, <1>2, <2>1, <2>2, <2>3
  <2>7. input \in Texts /\ \A j \in 1..n : input[j] = w[j]
    BY <2>2, <2>3 DEF Texts
  <2> QED BY <2>4, <2>5, <2>6, <2>7
<1>4. remove_leading(text, Blank) = input
  <2>1. input # <<>> /\ input[1] # Blank
    <3> HIDE DEF input, n
    <3>1. Len(input) # 0 /\ w[1] # Blank /\ input[1] = w[1]
      BY <1>1, <1>2, <1>3
    <3> QED BY <3>1
  <2> HIDE DEF input
  <2> QED BY <1>3, <2>1, LeadingGone DEF input
<1> HIDE DEF input
<1>5. \A j \in ends : j \in Nat /\ n + a + 1 <= j
  <2> SUFFICES ASSUME NEW j \in ends, j < n + a + 1 PROVE FALSE
    BY <1>1, <1>3 DEF Texts
  <2>1. j \in 1..(n + a) /\ input[j] \in marks
    BY <1>1, <1>2, <1>3 DEF Texts
  <2>2. j \in 1..n \/ (j - n \in 1..a /\ n + (j - n) = j)
    BY <1>1, <2>1
  <2> QED BY <1>1, <1>3, <2>1, <2>2
<1>6. end = n + a + 1 /\ (ends = {} <=> tail = <<>>)
  <2>1. CASE tail = <<>>
    <3>1. Len(tail) = 0
      BY <2>1
    <3>2. ends = {}
      BY <1>1, <1>3, <1>5, <3>1 DEF Texts
    <3> QED BY <1>1, <1>3, <2>1, <3>1, <3>2
  <2>2. CASE tail # <<>>
    <3>1. 1 \in 1..Len(tail)
      BY <1>2, <2>2, EmptySeq DEF Texts
    <3>2. n + a + 1 \in ends
      BY <1>1, <1>3, <2>2, <3>1 DEF Texts
    <3>3. Least(ends) \in ends /\ \A h \in ends : Least(ends) <= h
      <4>1. ends \subseteq Nat /\ ends # {}
        BY <1>5, <3>2
      <4> HIDE DEF ends
      <4> QED BY <4>1, LeastOfSome
    <3>4. Least(ends) = n + a + 1
      <4> HIDE DEF ends
      <4> QED BY <1>1, <1>5, <3>2, <3>3
    <3> QED BY <2>2, <3>2, <3>4
  <2> QED BY <2>1, <2>2
<1> DEFINE val == remove_trailing(SubSeq(input, 1, end - 1), Blank)
<1>7. val = w
  <2> DEFINE piece == SubSeq(input, 1, n + a)
  <2>1. piece \in Seq(Tokens) /\ Len(piece) = n + a /\ \A j \in 1..(n + a) : piece[j] = input[1 + j - 1]
    <3>1. \A j \in 1..(n + a) : input[j] \in Tokens
      BY <1>1, <1>2, <1>3 DEF Texts
    <3>2. 1 \in Int /\ n + a \in Int /\ 1 <= n + a /\ n + a - 1 + 1 = n + a
      BY <1>1
    <3> HIDE DEF n
    <3> QED BY <3>1, <3>2, SubSeqProperties
  <2> HIDE DEF piece
  <2>2. /\ w \o Spaces(a) \in Seq(Tokens) /\ Len(w \o Spaces(a)) = n + a
        /\ \A j \in 1..n : (w \o Spaces(a))[j] = w[j]
        /\ \A j \in 1..a : (w \o Spaces(a))[n + j] = Blank
    BY <1>1, SpacesBehind DEF Texts
  <2>3. \A j \in 1..(n + a) : piece[j] = (w \o Spaces(a))[j]
    <3> SUFFICES ASSUME NEW j \in 1..(n + a) PROVE piece[j] = (w \o Spaces(a))[j]
      OBVIOUS
    <3>1. piece[j] = input[j]
      BY <1>1, <2>1
    <3>2. CASE j <= n
      BY <1>1, <1>3, <2>2, <3>1, <3>2
    <3>3. CASE ~(j <= n)
      <4>1. j - n \in 1..a /\ n + (j - n) = j
        BY <1>1, <3>3
      <4>2. input[n + (j - n)] = Blank /\ (w \o Spaces(a))[n + (j - n)] = Blank
        BY <1>3, <2>2, <4>1
      <4> HIDE DEF n
      <4> QED BY <3>1, <4>1, <4>2
    <3> QED BY <3>2, <3>3
  <2>4. piece = w \o Spaces(a)
    BY <2>1, <2>2, <2>3, SeqEqual
  <2>5. w # <<>> /\ w[Len(w)] # Blank
    <3>1. w[n] # Blank
      BY <1>1
    <3> QED BY <1>1, <3>1
  <2>6. remove_trailing(piece, Blank) = w
    BY <1>1, <2>4, <2>5, TrailingGone
  <2>7. end - 1 = n + a
    BY <1>1, <1>6
  <2> QED BY <2>6, <2>7 DEF piece
<1> DEFINE rest == SubSeq(input, end + 1, Len(input))
<1>8. /\ tail = <<>> => rest = <<>>
      /\ tail # <<>> => rest = Tail(tail)
  <2>0. end + 1 = n + a + 2 /\ Len(input) = n + a + Len(tail)
    BY <1>1, <1>3, <1>6
  <2>1. /\ rest \in Seq(Tokens)
        /\ Len(tail) >= 2 => Len(rest) = Len(tail) - 1
        /\ Len(tail) < 2 => Len(rest) = 0
        /\ \A j \in 1..(Len(tail) - 1) : rest[j] = input[n + a + (j + 1)]
    <3>1. \A j \in (n + a + 2)..(n + a + Len(tail)) : input[j] \in Tokens
      BY <1>1, <1>2, <1>3 DEF Texts
    <3>2. n + a + 2 \in Int /\ n + a + Len(tail) \in Int
      BY <1>1, <1>2
    <3> DEFINE from == n + a + 2
               to   == n + a + Len(tail)
               part == SubSeq(input, from, to)
    <3>3. from \in Int /\ to \in Int /\ \A j \in from..to : input[j] \in Tokens
      BY <3>1, <3>2
    <3> HIDE DEF from, to
    <3>4. /\ part \in Seq(Tokens) /\ Len(part) = IF from <= to THEN to - from + 1 ELSE 0
          /\ \A j \in 1..(to - from + 1) : part[j] = input[from + j - 1]
      BY <3>3, SubSeqProperties
    <3>5. rest = part
      BY <2>0 DEF from, to
    <3> HIDE DEF part, rest
    <3>6. /\ rest \in Seq(Tokens) /\ Len(rest) = IF from <= to THEN to - from + 1 ELSE 0
          /\ \A j \in 1..(to - from + 1) : rest[j] = input[from + j - 1]
      BY <3>4, <3>5, Zenon
    <3>7. from <= to <=> Len(tail) >= 2
      BY <1>1, <1>2 DEF from, to
    <3>8. to - from + 1 = Len(tail) - 1
      BY <1>1, <1>2 DEF from, to
    <3>9. \A j \in Nat : from + j - 1 = n + a + (j + 1)
      BY <1>1 DEF from
    <3> HIDE DEF n
    <3>10. \A j \in 1..(Len(tail) - 1) : rest[j] = input[n + a + (j + 1)]
      BY <3>6, <3>8, <3>9
    <3> QED BY <1>2, <3>6, <3>7, <3>8, <3>10
  <2> HIDE DEF rest
  <2>2. CASE tail = <<>>
    <3>1. Len(tail) = 0
      BY <2>2
    <3>2. Len(rest) = 0
      <4> HIDE DEF n
      <4> QED BY <1>1, <2>1, <3>1
    <3> QED BY <2>1, <2>2, <3>2, EmptySeq
  <2>3. CASE tail # <<>>
    <3>1. Len(tail) \in Nat \ {0}
      BY <1>2, <2>3, EmptySeq DEF Texts
    <3>2. /\ Tail(tail) \in Seq(Tokens) /\ Len(Tail(tail)) = Len(tail) - 1
          /\ \A j \in 1..Len(Tail(tail)) : Tail(tail)[j] = tail[j + 1]
      BY <2>3, HeadTailProperties DEF Texts
    <3>3. Len(rest) = Len(tail) - 1
      <4> HIDE DEF n
      <4>1. \A l \in Nat \ {0} : l < 2 => 0 = l - 1
        OBVIOUS
      <4> QED BY <2>1, <3>1, <4>1
    <3>4. \A j \in 1..(Len(tail) - 1) : rest[j] = tail[j + 1]
      <4> TAKE j \in 1..(Len(tail) - 1)
      <4>1. rest[j] = input[n + a + (j + 1)]
        BY <2>1
      <4>2. j + 1 \in 1..Len(tail)
        BY <3>1
      <4> HIDE DEF n
      <4> QED BY <1>3, <4>1, <4>2
    <3> QED BY <2>1, <2>3, <3>2, <3>3, <3>4, SeqEqual
  <2> QED BY <2>2, <2>3
<1>9. ends # {} => input[end] = tail[1]
  <2>1. ends # {} => tail # <<>> /\ 1 \in 1..Len(tail)
    <3> HIDE DEF ends, end
    <3>1. tail # <<>> => Len(tail) \in Nat \ {0}
      BY EmptySeq DEF Texts
    <3> QED BY <1>6, <3>1
  <2> HIDE DEF ends, end, n
  <2>2. \A j \in 1..Len(tail) : input[n + a + j] = tail[j]
    BY <1>3
  <2> QED BY <1>6, <2>1, <2>2
<1> DEFINE found == upto(text, marks, req)
<1>10. found = [ok |-> val # <<>> /\ (req => ends # {}), val |-> val,
                term |-> IF ends = {} THEN "\n" ELSE input[end], rest |-> rest]
  BY <1>4 DEF upto, Blank
<1> HIDE DEF found, val, ends, end, rest
<1>11. found.val = val /\ found.rest = rest /\ found.term = IF ends = {} THEN "\n" ELSE input[end]
  BY <1>10
<1>12. found.ok = (val # <<>> /\ (req => ends # {}))
  BY <1>10, Zenon
<1>13. w # <<>>
  OBVIOUS
<1>14. found.ok
  BY <1>6, <1>7, <1>12, <1>13
<1> QED BY <1>6, <1>7, <1>8, <1>9, <1>11, <1>14 DEF found

-----------------------------------------------------------------------------
(* The parts of a header, and the entries they are of.                     *)

IsRange(part) == part.mark = "/"
IsQuality(part) == part.mark = "=" /\ part.left = <<"q">>

LEMMA PartFacts ==
  ASSUME NEW part \in Part
  PROVE  /\ part.of \in Nat /\ part.left \in Words /\ part.right \in Words
         /\ part.mark \in {"/", "="}
         /\ part.pad[1] \in Nat /\ part.pad[2] \in Nat /\ part.pad[3] \in Nat /\ part.pad[4] \in Nat
<1>1. part.pad \in [1..4 -> Nat] /\ part.of \in Nat /\ part.left \in Words /\ part.right \in Words
      /\ part.mark \in {"/", "="}
  BY DEF Part
<1> QED BY <1>1

Written(parts, entries) ==
  /\ Len(parts) \in Nat /\ Len(entries) \in Nat \ {0} /\ parts \in Seq(Part)
  /\ \A k \in 1..Len(parts) : parts[k] \in Part /\ parts[k].of \in 1..Len(entries)
  /\ \A i \in 1..Len(entries) : \E k \in 1..Len(parts) : parts[k].of = i
  /\ \A j, k \in 1..Len(parts) : j < k => parts[j].of <= parts[k].of
  /\ \A k \in 1..Len(parts) : IsRange(parts[k]) <=> \A j \in 1..(k - 1) : parts[j].of # parts[k].of

LEMMA WrittenFacts ==
  ASSUME NEW parts \in Seq(Part), NEW S, NEW entries \in Seq(S), entries # <<>>, Means(parts, entries)
  PROVE  Written(parts, entries)
<1>1. Len(parts) \in Nat /\ Len(entries) \in Nat \ {0} /\ DOMAIN parts = 1..Len(parts)
      /\ DOMAIN entries = 1..Len(entries) /\ \A k \in 1..Len(parts) : parts[k] \in Part
  BY EmptySeq
<1>2. {parts[k].of : k \in DOMAIN parts} = DOMAIN entries
  BY DEF Means
<1>3. \A j, k \in DOMAIN parts : j < k => parts[j].of <= parts[k].of
  BY DEF Means
<1>4. \A k \in DOMAIN parts : IsRange(parts[k]) <=> \A j \in 1..(k - 1) : parts[j].of # parts[k].of
  BY DEF Means, IsRange
<1> QED BY <1>1, <1>2, <1>3, <1>4 DEF Written

LEMMA FirstPart ==
  ASSUME NEW parts, NEW entries, Written(parts, entries)
  PROVE  1 \in 1..Len(parts) /\ IsRange(parts[1]) /\ parts[1].of = 1
<1>1. 1 \in 1..Len(entries)
  BY DEF Written
<1>2. PICK k \in 1..Len(parts) : parts[k].of = 1
  BY <1>1 DEF Written
<1>3. 1 \in 1..Len(parts)
  BY <1>2 DEF Written
<1>4. parts[1].of \in 1..Len(entries)
  BY <1>3 DEF Written
<1>5. k # 1 => parts[1].of <= 1
  <2>1. k # 1 => 1 < k
    OBVIOUS
  <2> QED BY <1>2, <1>3, <2>1 DEF Written
<1>6. 1..(1 - 1) = {}
  OBVIOUS
<1>7. IsRange(parts[1])
  BY <1>3, <1>6 DEF Written
<1> QED BY <1>2, <1>3, <1>4, <1>5, <1>7

LEMMA NextPart ==
  ASSUME NEW parts, NEW entries, Written(parts, entries), NEW k \in 1..(Len(parts) - 1)
  PROVE  /\ k \in 1..Len(parts) /\ k + 1 \in 1..Len(parts)
         /\ IsRange(parts[k + 1]) => parts[k + 1].of = parts[k].of + 1
         /\ ~IsRange(parts[k + 1]) => parts[k + 1].of = parts[k].of
<1>1. Len(parts) \in Nat
  BY DEF Written
<1>2. k \in 1..Len(parts) /\ k + 1 \in 1..Len(parts) /\ k < k + 1
  BY <1>1
<1>3. parts[k].of \in 1..Len(entries) /\ parts[k + 1].of \in 1..Len(entries) /\ parts[k].of <= parts[k + 1].of
  BY <1>2 DEF Written
<1>4. ASSUME IsRange(parts[k + 1]) PROVE parts[k + 1].of = parts[k].of + 1
  <2>1. parts[k].of # parts[k + 1].of
    <3>1. k \in 1..(k + 1 - 1)
      OBVIOUS
    <3> QED BY <1>2, <1>4, <3>1 DEF Written
  <2> SUFFICES ASSUME parts[k + 1].of # parts[k].of + 1 PROVE FALSE
    OBVIOUS
  <2>2. Len(entries) \in Nat
    BY DEF Written
  <2> DEFINE i == parts[k].of + 1
  <2>3. i \in 1..Len(entries) /\ parts[k].of < i /\ i < parts[k + 1].of
    BY <1>3, <2>1, <2>2
  <2>4. PICK h \in 1..Len(parts) : parts[h].of = i
    BY <2>3 DEF Written
  <2>5. h < k \/ h = k \/ h = k + 1 \/ k + 1 < h
    OBVIOUS
  <2>6. h < k => parts[h].of <= parts[k].of
    BY <1>2 DEF Written
  <2>7. k + 1 < h => parts[k + 1].of <= parts[h].of
    BY <1>2 DEF Written
  <2> HIDE DEF i
  <2>8. i \in Nat /\ parts[k].of \in Nat /\ parts[k + 1].of \in Nat
    BY <1>3, <2>3
  <2> QED BY <2>3, <2>4, <2>5, <2>6, <2>7, <2>8
<1>5. ASSUME ~IsRange(parts[k + 1]) PROVE parts[k + 1].of = parts[k].of
  <2>1. PICK j \in 1..(k + 1 - 1) : parts[j].of = parts[k + 1].of
    BY <1>2, <1>5 DEF Written
  <2>2. j \in 1..Len(parts) /\ (j = k \/ j < k)
    BY <1>1
  <2>3. j < k => parts[j].of <= parts[k].of
    BY <1>2, <2>2 DEF Written
  <2> QED BY <1>3, <2>1, <2>2, <2>3
<1> QED BY <1>2, <1>4, <1>5

LEMMA LastPart ==
  ASSUME NEW parts, NEW entries, Written(parts, entries)
  PROVE  Len(parts) \in 1..Len(parts) /\ parts[Len(parts)].of = Len(entries)
<1>1. Len(entries) \in 1..Len(entries) /\ Len(parts) \in Nat
  BY DEF Written
<1>2. PICK k \in 1..Len(parts) : parts[k].of = Len(entries)
  BY <1>1 DEF Written
<1>3. Len(parts) \in 1..Len(parts) /\ (k = Len(parts) \/ k < Len(parts))
  BY <1>1
<1>4. k < Len(parts) => parts[k].of <= parts[Len(parts)].of
  BY <1>3 DEF Written
<1>5. parts[Len(parts)].of \in 1..Len(entries)
  BY <1>3 DEF Written
<1> QED BY <1>1, <1>2, <1>3, <1>4, <1>5

(* Behind the last part of an entry there is no other of it. *)
LEMMA EntryWhole ==
  ASSUME NEW parts, NEW entries, Written(parts, entries), NEW k \in 1..Len(parts),
         k = Len(parts) \/ IsRange(parts[k + 1])
  PROVE  \A j \in 1..Len(parts) : parts[j].of = parts[k].of => j <= k
<1> SUFFICES ASSUME NEW j \in 1..Len(parts), parts[j].of = parts[k].of, ~(j <= k) PROVE FALSE
  OBVIOUS
<1>1. Len(parts) \in Nat
  BY DEF Written
<1>2. k \in 1..(Len(parts) - 1) /\ (j = k + 1 \/ k + 1 < j) /\ k + 1 \in 1..Len(parts)
  BY <1>1
<1>3. parts[k + 1].of = parts[k].of + 1 /\ parts[k].of \in Nat
  <2>1. IsRange(parts[k + 1])
    BY <1>1, <1>2
  <2>2. parts[k].of \in 1..Len(entries)
    BY DEF Written
  <2> QED BY <1>2, <2>1, <2>2, NextPart
<1>4. k + 1 < j => parts[k + 1].of <= parts[j].of
  BY <1>2 DEF Written
<1> QED BY <1>2, <1>3, <1>4

-----------------------------------------------------------------------------
(* The text of the parts.                                                  *)

LEMMA ConcatTyped ==
  ASSUME NEW S, NEW s \in Seq(S), NEW t \in Seq(S)
  PROVE  s \o t \in Seq(S)
  OBVIOUS

Unfolds(a, b, c, d, e, f, g, t) ==
  /\ a \o b \o c \o d \o e \o f \o g \in Texts
  /\ (a \o b \o c \o d \o e \o f \o g) \o t = a \o (b \o (c \o (d \o (e \o (f \o (g \o t))))))

Cat(s, t) == s \o t

LEMMA CatTyped ==
  ASSUME NEW s \in Texts, NEW t \in Texts
  PROVE  Cat(s, t) \in Texts
  BY DEF Cat, Texts

LEMMA CatAssociative ==
  ASSUME NEW s \in Texts, NEW t \in Texts, NEW u \in Texts
  PROVE  Cat(Cat(s, t), u) = Cat(s, Cat(t, u))
  BY DEF Cat, Texts

LEMMA Unfolded ==
  ASSUME NEW a \in Texts, NEW b \in Texts, NEW c \in Texts, NEW d \in Texts,
         NEW e \in Texts, NEW f \in Texts, NEW g \in Texts, NEW t \in Texts
  PROVE  Unfolds(a, b, c, d, e, f, g, t)
<1> DEFINE text == Cat(Cat(Cat(Cat(Cat(Cat(a, b), c), d), e), f), g)
<1>1. text \in Texts
  BY CatTyped
<1>2. Cat(text, t) = Cat(a, Cat(b, Cat(c, Cat(d, Cat(e, Cat(f, Cat(g, t)))))))
  <2> DEFINE ab == Cat(a, b)
             abc == Cat(ab, c)
             abcd == Cat(abc, d)
             abcde == Cat(abcd, e)
             abcdef == Cat(abcde, f)
             gt == Cat(g, t)
             fgt == Cat(f, gt)
             efgt == Cat(e, fgt)
             defgt == Cat(d, efgt)
             cdefgt == Cat(c, defgt)
  <2>1. ab \in Texts /\ gt \in Texts
    BY CatTyped
  <2> HIDE DEF ab, gt
  <2>2. abc \in Texts /\ fgt \in Texts
    BY <2>1, CatTyped
  <2> HIDE DEF abc, fgt
  <2>3. abcd \in Texts /\ efgt \in Texts
    BY <2>2, CatTyped
  <2> HIDE DEF abcd, efgt
  <2>4. abcde \in Texts /\ defgt \in Texts
    BY <2>3, CatTyped
  <2> HIDE DEF abcde, defgt
  <2>5. abcdef \in Texts /\ cdefgt \in Texts
    BY <2>4, CatTyped
  <2> HIDE DEF abcdef, cdefgt
  <2>6. Cat(Cat(abcdef, g), t) = Cat(abcdef, gt)
    BY <2>5, CatAssociative DEF gt
  <2>7. Cat(abcdef, gt) = Cat(abcde, fgt)
    BY <2>1, <2>4, CatAssociative DEF abcdef, fgt
  <2>8. Cat(abcde, fgt) = Cat(abcd, efgt)
    BY <2>2, <2>3, CatAssociative DEF abcde, efgt
  <2>9. Cat(abcd, efgt) = Cat(abc, defgt)
    BY <2>2, <2>3, CatAssociative DEF abcd, defgt
  <2>10. Cat(abc, defgt) = Cat(ab, cdefgt)
    BY <2>1, <2>4, CatAssociative DEF abc, cdefgt
  <2>11. Cat(ab, cdefgt) = Cat(a, Cat(b, cdefgt))
    BY <2>5, CatAssociative DEF ab
  <2>12. Cat(Cat(abcdef, g), t) = Cat(a, Cat(b, cdefgt))
    BY <2>6, <2>7, <2>8, <2>9, <2>10, <2>11
  <2> QED BY <2>12 DEF ab, abc, abcd, abcde, abcdef, gt, fgt, efgt, defgt, cdefgt
<1>3. text = a \o b \o c \o d \o e \o f \o g /\ Cat(text, t) = text \o t
  BY DEF Cat
<1>4. Cat(a, Cat(b, Cat(c, Cat(d, Cat(e, Cat(f, Cat(g, t)))))))
        = a \o (b \o (c \o (d \o (e \o (f \o (g \o t))))))
  BY DEF Cat
<1> HIDE DEF text
<1> QED BY <1>1, <1>2, <1>3, <1>4 DEF Unfolds

(* A part's text, with b spaces before it, up to what is behind it. *)
PartFrom(part, b, tail) ==
  Spaces(b) \o (part.left \o (Spaces(part.pad[2]) \o (<<part.mark>> \o
    (Spaces(part.pad[3]) \o (part.right \o (Spaces(part.pad[4]) \o tail))))))

LEMMA MarkTyped ==
  ASSUME NEW part \in Part
  PROVE  <<part.mark>> \in Texts /\ part.mark \in Separators
<1>1. part.mark \in Separators
  BY PartFacts, Zenon DEF Separators
<1> DEFINE mark == part.mark
<1>2. mark \in Tokens
  BY <1>1, SeparatorsTyped
<1> HIDE DEF mark
<1>3. <<mark>> \in Seq(Tokens)
  BY <1>2
<1> QED BY <1>1, <1>3 DEF mark, Texts

LEMMA WordTyped ==
  ASSUME NEW w \in Words
  PROVE  w \in Texts /\ w # <<>> /\ \A j \in 1..Len(w) : w[j] \notin Separators
  BY DEF Words, Texts

LEMMA PartTextIs ==
  ASSUME NEW part \in Part, NEW tail \in Texts
  PROVE  PartText(part) \in Texts /\ PartText(part) \o tail = PartFrom(part, part.pad[1], tail)
<1> DEFINE a == Spaces(part.pad[1])
           b == part.left
           c == Spaces(part.pad[2])
           d == <<part.mark>>
           e == Spaces(part.pad[3])
           f == part.right
           g == Spaces(part.pad[4])
<1>1. a \in Texts /\ c \in Texts /\ e \in Texts /\ g \in Texts
  BY PartFacts, SpacesTyped
<1>2. b \in Texts /\ f \in Texts /\ d \in Texts
  BY PartFacts, MarkTyped, WordTyped
<1>3. PartText(part) = a \o b \o c \o d \o e \o f \o g
  BY DEF PartText
<1>4. PartFrom(part, part.pad[1], tail) = a \o (b \o (c \o (d \o (e \o (f \o (g \o tail))))))
  BY DEF PartFrom
<1> HIDE DEF a, b, c, d, e, f, g
<1>5. Unfolds(a, b, c, d, e, f, g, tail)
  BY <1>1, <1>2, Unfolded
<1> QED BY <1>3, <1>4, <1>5, Zenon DEF Unfolds

(* What upto has found: a word, what ended it and what is behind that. *)
Found(found, w, tail) ==
  /\ found.ok /\ found.val = w
  /\ tail = <<>> => found.term = "\n" /\ found.rest = <<>>
  /\ tail # <<>> => found.term = tail[1] /\ found.rest = Tail(tail)

LEMMA WordFound ==
  ASSUME NEW b \in Nat, NEW a \in Nat, NEW w \in Words, NEW tail \in Texts,
         NEW marks, NEW req \in BOOLEAN, marks \subseteq Separators, Blank \notin marks,
         tail # <<>> => tail[1] \in marks, req => tail # <<>>
  PROVE  Found(upto(Spaces(b) \o (w \o (Spaces(a) \o tail)), marks, req), w, tail)
<1>1. w \in Texts /\ w # <<>> /\ \A j \in 1..Len(w) : w[j] \notin Separators
  BY WordTyped
<1>2. Blank \in Separators
  BY DEF Blank, Separators
<1>3. \A j \in 1..Len(w) : w[j] # Blank /\ w[j] \notin marks
  BY <1>1, <1>2
<1>4. LET found == upto(Spaces(b) \o (w \o (Spaces(a) \o tail)), marks, req) IN
         /\ found.ok /\ found.val = w
         /\ tail = <<>> => found.term = "\n" /\ found.rest = <<>>
         /\ tail # <<>> => found.term = tail[1] /\ found.rest = Tail(tail)
  BY <1>1, <1>3, UptoReads
<1> QED BY <1>4, Zenon DEF Found

LEMMA MarkBefore ==
  ASSUME NEW S, NEW m \in S, NEW s \in Seq(S)
  PROVE  /\ <<m>> \o s \in Seq(S) /\ <<m>> \o s # <<>>
         /\ (<<m>> \o s)[1] = m /\ Tail(<<m>> \o s) = s
<1>1. <<m>> \o s \in Seq(S) /\ <<m>> \o s # <<>> /\ (<<m>> \o s)[1] = m /\ Len(<<m>> \o s) = Len(s) + 1
      /\ \A j \in 1..Len(s) : (<<m>> \o s)[j + 1] = s[j]
  OBVIOUS
<1> DEFINE t == <<m>> \o s
<1> HIDE DEF t
<1>2. Tail(t) \in Seq(S) /\ Len(Tail(t)) = Len(s) /\ \A j \in 1..Len(s) : Tail(t)[j] = s[j]
  BY <1>1 DEF t
<1>3. Tail(t) = s
  BY <1>2, SeqEqual
<1> QED BY <1>1, <1>3 DEF t

LEMMA PartRead ==
  ASSUME NEW part \in Part, NEW b \in Nat, NEW tail \in Texts,
         NEW ends, ends \subseteq Separators, Blank \notin ends, tail # <<>> => tail[1] \in ends
  PROVE  LET first  == upto(PartFrom(part, b, tail), {part.mark}, TRUE)
             second == upto(first.rest, ends, FALSE)
         IN /\ first.ok /\ first.val = part.left
            /\ Found(second, part.right, tail)
<1> DEFINE behind == Spaces(part.pad[3]) \o (part.right \o (Spaces(part.pad[4]) \o tail))
           marked == <<part.mark>> \o behind
           first  == upto(PartFrom(part, b, tail), {part.mark}, TRUE)
           second == upto(first.rest, ends, FALSE)
<1>1. behind \in Texts
  <2> DEFINE c == Spaces(part.pad[3])
             d == part.right
             e == Spaces(part.pad[4])
  <2>1. c \in Texts /\ d \in Texts /\ e \in Texts
    BY PartFacts, SpacesTyped, WordTyped
  <2> HIDE DEF c, d, e
  <2>2. Cat(c, Cat(d, Cat(e, tail))) \in Texts
    BY <2>1, CatTyped
  <2> QED BY <2>2 DEF Cat, c, d, e
<1> HIDE DEF behind
<1>2. marked \in Texts /\ marked # <<>> /\ marked[1] = part.mark /\ Tail(marked) = behind
  <2> DEFINE m == part.mark
  <2>1. m \in Tokens /\ behind \in Seq(Tokens)
    BY <1>1, MarkTyped, SeparatorsTyped DEF Texts
  <2> HIDE DEF m
  <2>2. /\ <<m>> \o behind \in Seq(Tokens) /\ <<m>> \o behind # <<>>
        /\ (<<m>> \o behind)[1] = m /\ Tail(<<m>> \o behind) = behind
    BY <2>1, MarkBefore
  <2> QED BY <2>2 DEF m, Texts
<1>3. {part.mark} \subseteq Separators /\ Blank \notin {part.mark}
  <2>1. part.mark \in Separators
    BY MarkTyped
  <2>2. part.mark # Blank
    BY PartFacts, Zenon DEF Blank
  <2> QED BY <2>1, <2>2, Zenon
<1>4. PartFrom(part, b, tail) = Spaces(b) \o (part.left \o (Spaces(part.pad[2]) \o marked))
  BY DEF PartFrom, behind
<1> HIDE DEF marked
<1>5. Found(first, part.left, marked)
  <2> DEFINE marks == {part.mark}
  <2>1. marks \subseteq Separators /\ Blank \notin marks /\ marked[1] \in marks
    BY <1>2, <1>3
  <2>2. part.left \in Words /\ part.pad[2] \in Nat
    BY PartFacts
  <2> HIDE DEF marks
  <2>3. Found(upto(Spaces(b) \o (part.left \o (Spaces(part.pad[2]) \o marked)), marks, TRUE), part.left, marked)
    BY <1>2, <2>1, <2>2, WordFound
  <2> QED BY <1>4, <2>3 DEF marks
<1> HIDE DEF first
<1>6. first.ok /\ first.val = part.left /\ first.rest = behind
  BY <1>2, <1>5, Zenon DEF Found
<1>7. Found(second, part.right, tail)
  <2>1. part.right \in Words /\ part.pad[3] \in Nat /\ part.pad[4] \in Nat
    BY PartFacts
  <2>2. Found(upto(Spaces(part.pad[3]) \o (part.right \o (Spaces(part.pad[4]) \o tail)), ends, FALSE), part.right, tail)
    BY <2>1, WordFound
  <2> QED BY <1>6, <2>2 DEF behind
<1> HIDE DEF second
<1>8. first.ok /\ first.val = part.left /\ Found(second, part.right, tail)
  BY <1>6, <1>7, Zenon
<1> QED BY <1>8, Zenon DEF first, second

-----------------------------------------------------------------------------
(* A header's text is what follows from each of its parts on.              *)

LEMMA UpTo ==
  ASSUME NEW n \in Nat, NEW P, 0 \in P, \A j \in 0..(n - 1) : j \in P => j + 1 \in P
  PROVE  \A j \in 0..n : j \in P
<1> SUFFICES ASSUME NEW i \in 0..n, i \notin P PROVE FALSE
  OBVIOUS
<1> DEFINE S == {j \in 0..n : j \notin P}
           x == Least(S)
<1>1. S \subseteq Nat /\ S # {}
  OBVIOUS
<1> HIDE DEF S
<1>4. x \in S /\ \A h \in S : x <= h
  BY <1>1, LeastOfSome
<1> HIDE DEF x
<1> USE DEF S
<1>2. x # 0 /\ x - 1 \in 0..(n - 1) /\ x - 1 \notin S
  BY <1>4
<1>3. x - 1 \in P /\ (x - 1) + 1 = x
  BY <1>2, <1>4
<1> QED BY <1>2, <1>3, <1>4

(* A function defined by recursion from n + 1 down is what its equations say. *)
Recedes(f, n, X, x, step) ==
  f \in [1..(n + 1) -> X] /\ f[n + 1] = x /\ \A k \in 1..n : f[k] = step[k][f[k + 1]]

LEMMA Receded ==
  ASSUME NEW n \in Nat, NEW X, NEW x \in X, NEW step \in [1..n -> [X -> X]]
  PROVE  \E f : Recedes(f, n, X, x, step)
<1> DEFINE From(f, m) == /\ f \in [1..(n + 1) -> X] /\ f[n + 1] = x
                         /\ \A k \in 1..n : k >= n + 1 - m => f[k] = step[k][f[k + 1]]
           P == {m \in 0..n : \E f : From(f, m)}
<1>1. 0 \in P
  <2> DEFINE f == [k \in 1..(n + 1) |-> x]
  <2>1. f \in [1..(n + 1) -> X] /\ f[n + 1] = x /\ 0 \in 0..n /\ \A k \in 1..n : ~(k >= n + 1 - 0)
    OBVIOUS
  <2> HIDE DEF f
  <2>2. From(f, 0)
    BY <2>1
  <2> QED BY <2>1, <2>2
<1>2. ASSUME NEW m \in 0..(n - 1), m \in P PROVE m + 1 \in P
  <2>1. PICK f : From(f, m)
    BY <1>2
  <2> DEFINE i == n - m
             g == [k \in 1..(n + 1) |-> IF k = i THEN step[i][f[i + 1]] ELSE f[k]]
  <2>2. i \in 1..n /\ i + 1 \in 1..(n + 1) /\ i # n + 1 /\ n + 1 \in 1..(n + 1) /\ m + 1 \in 0..n
    OBVIOUS
  <2>3. step[i][f[i + 1]] \in X
    BY <2>1, <2>2
  <2>4. g \in [1..(n + 1) -> X] /\ g[n + 1] = x
    BY <2>1, <2>2, <2>3
  <2>5. ASSUME NEW k \in 1..n, k >= n + 1 - (m + 1) PROVE g[k] = step[k][g[k + 1]]
    <3>1. k + 1 \in 1..(n + 1) /\ k + 1 # i /\ k \in 1..(n + 1)
      BY <2>5
    <3>2. g[k + 1] = f[k + 1]
      BY <3>1
    <3>3. CASE k = i
      BY <3>1, <3>2, <3>3
    <3>4. CASE k # i
      <4>1. k >= n + 1 - m
        BY <2>5, <3>4
      <4>2. f[k] = step[k][f[k + 1]]
        BY <2>1, <4>1
      <4> QED BY <3>1, <3>2, <3>4, <4>2
    <3> QED BY <3>3, <3>4
  <2> HIDE DEF g
  <2>6. From(g, m + 1)
    BY <2>4, <2>5
  <2> QED BY <2>2, <2>6
<1> HIDE DEF P
<1>3. n \in P
  <2>1. \A m \in 0..n : m \in P
    BY <1>1, <1>2, UpTo
  <2> QED BY <2>1
<1>4. PICK f : From(f, n)
  BY <1>3 DEF P
<1>5. \A k \in 1..n : k >= n + 1 - n
  OBVIOUS
<1>6. Recedes(f, n, X, x, step)
  BY <1>4, <1>5 DEF Recedes
<1> QED BY <1>6

(* A header's text from each of its parts on. *)
TextRule(parts, text) ==
  [k \in 1..(Len(parts) + 1) |->
     IF k = Len(parts) + 1 THEN <<>>
     ELSE PartText(parts[k]) \o (IF k = Len(parts) THEN <<>> ELSE <<Joint(parts[k + 1])>> \o text[k + 1])]
TextsOf(parts) == CHOOSE text : text = TextRule(parts, text)

(* What is behind a part. *)
Behind(parts, k) == IF k = Len(parts) THEN <<>> ELSE <<Joint(parts[k + 1])>> \o TextsOf(parts)[k + 1]

LEMMA HeaderTextIs ==
  ASSUME NEW parts
  PROVE  HeaderText(parts) = TextsOf(parts)[1]
  BY DEF HeaderText, TextsOf, TextRule

LEMMA JointTyped ==
  ASSUME NEW part
  PROVE  Joint(part) \in Separators /\ Joint(part) \in Tokens
<1>1. Joint(part) \in Separators
  BY Zenon DEF Joint, Separators
<1> QED BY <1>1, SeparatorsTyped

TextTurn(parts, k, t) == PartText(parts[k]) \o (IF k = Len(parts) THEN <<>> ELSE <<Joint(parts[k + 1])>> \o t)

LEMMA TextTurnTyped ==
  ASSUME NEW parts \in Seq(Part), NEW k \in 1..Len(parts), NEW t \in Texts
  PROVE  TextTurn(parts, k, t) \in Texts
<1>1. PartText(parts[k]) \in Texts
  <2>1. parts[k] \in Part /\ <<>> \in Texts
    BY DEF Texts
  <2> QED BY <2>1, PartTextIs
<1> DEFINE p == PartText(parts[k])
           j == Joint(parts[k + 1])
<1>2. j \in Tokens
  BY JointTyped
<1> HIDE DEF p, j
<1>3. <<>> \in Texts /\ <<j>> \o t \in Texts
  BY <1>2 DEF Texts
<1> DEFINE r == IF k = Len(parts) THEN <<>> ELSE <<j>> \o t
<1>4. r \in Texts
  BY <1>3
<1> HIDE DEF r
<1>5. p \in Texts
  BY <1>1 DEF p
<1>6. p \o r \in Texts
  BY <1>4, <1>5 DEF Texts
<1> QED BY <1>6 DEF r, p, j, TextTurn

LEMMA TextsOfIs ==
  ASSUME NEW parts \in Seq(Part)
  PROVE  /\ \A k \in 1..(Len(parts) + 1) : TextsOf(parts)[k] \in Texts
         /\ TextsOf(parts)[Len(parts) + 1] = <<>>
         /\ \A k \in 1..Len(parts) : TextsOf(parts)[k] = PartText(parts[k]) \o Behind(parts, k)
<1> DEFINE n == Len(parts)
           step == [k \in 1..n |-> [t \in Texts |-> TextTurn(parts, k, t)]]
           c == TextsOf(parts)
<1>1. n \in Nat /\ <<>> \in Texts /\ \A k \in 1..n : \A t \in Texts : TextTurn(parts, k, t) \in Texts
  BY TextTurnTyped DEF Texts
<1>2. step \in [1..n -> [Texts -> Texts]]
  BY <1>1
<1> HIDE DEF step, n
<1>3. PICK f : Recedes(f, n, Texts, <<>>, step)
  BY <1>1, <1>2, Receded
<1>4. f \in [1..(n + 1) -> Texts] /\ f[n + 1] = <<>> /\ \A k \in 1..n : f[k] = step[k][f[k + 1]]
  BY <1>3 DEF Recedes
<1>5. \A k \in 1..n : f[k] = TextTurn(parts, k, f[k + 1])
  <2> TAKE k \in 1..n
  <2>1. f[k + 1] \in Texts
    BY <1>1, <1>4
  <2> QED BY <1>4, <2>1 DEF step
<1>6. f = TextRule(parts, f)
  <2> DEFINE R(k) == IF k = n + 1 THEN <<>> ELSE TextTurn(parts, k, f[k + 1])
  <2>1. TextRule(parts, f) = [k \in 1..(n + 1) |-> R(k)]
    BY DEF TextRule, TextTurn, n
  <2>2. ASSUME NEW k \in 1..(n + 1) PROVE f[k] = R(k)
    <3>1. k # n + 1 => k \in 1..n
      BY <1>1
    <3> QED BY <1>4, <1>5, <3>1
  <2>3. f = [k \in 1..(n + 1) |-> f[k]]
    BY <1>4
  <2> HIDE DEF R
  <2> QED BY <2>1, <2>2, <2>3
<1>7. c = TextRule(parts, c)
  BY <1>6 DEF TextsOf
<1> HIDE DEF c
<1>8. c[n + 1] = <<>> /\ \A k \in 1..n : c[k] = TextTurn(parts, k, c[k + 1])
  <2>1. \A k \in 1..(n + 1) : c[k] = IF k = n + 1 THEN <<>> ELSE TextTurn(parts, k, c[k + 1])
    BY <1>7 DEF TextRule, TextTurn, n
  <2>2. n + 1 \in 1..(n + 1) /\ \A k \in 1..n : k \in 1..(n + 1) /\ k # n + 1
    BY <1>1
  <2> QED BY <2>1, <2>2
<1> DEFINE P == {m \in 0..n : c[n + 1 - m] \in Texts}
<1>9. 0 \in P
  <2>1. n + 1 - 0 = n + 1 /\ 0 \in 0..n
    BY <1>1
  <2> QED BY <1>1, <1>8, <2>1
<1>10. \A m \in 0..(n - 1) : m \in P => m + 1 \in P
  <2> SUFFICES ASSUME NEW m \in 0..(n - 1), c[n + 1 - m] \in Texts PROVE m + 1 \in P
    OBVIOUS
  <2>1. n - m \in 1..n /\ n - m + 1 = n + 1 - m /\ n + 1 - (m + 1) = n - m /\ m + 1 \in 0..n
    BY <1>1
  <2>2. c[n - m] = TextTurn(parts, n - m, c[n + 1 - m])
    BY <1>8, <2>1
  <2>3. c[n - m] \in Texts
    BY <1>1, <2>1, <2>2
  <2> QED BY <2>1, <2>3
<1> HIDE DEF P
<1>11. \A m \in 0..n : m \in P
  BY <1>1, <1>9, <1>10, UpTo
<1>12. \A k \in 1..(n + 1) : c[k] \in Texts
  <2> TAKE k \in 1..(n + 1)
  <2>1. n + 1 - k \in 0..n /\ n + 1 - (n + 1 - k) = k
    BY <1>1
  <2> QED BY <1>11, <2>1 DEF P
<1>13. \A k \in 1..n : TextTurn(parts, k, c[k + 1]) = PartText(parts[k]) \o Behind(parts, k)
  BY DEF TextTurn, Behind, c
<1> QED BY <1>8, <1>12, <1>13 DEF n, c

LEMMA TextFrom ==
  ASSUME NEW parts \in Seq(Part), NEW k \in 1..Len(parts)
  PROVE  /\ Behind(parts, k) \in Texts
         /\ TextsOf(parts)[k] = PartFrom(parts[k], parts[k].pad[1], Behind(parts, k))
<1>1. parts[k] \in Part /\ k + 1 \in 1..(Len(parts) + 1)
  OBVIOUS
<1>2. Behind(parts, k) \in Texts
  <2> DEFINE t == TextsOf(parts)[k + 1]
             j == Joint(parts[k + 1])
  <2>1. t \in Texts /\ j \in Tokens
    BY <1>1, TextsOfIs, JointTyped
  <2> HIDE DEF t, j
  <2>2. <<>> \in Texts /\ <<j>> \o t \in Texts
    BY <2>1 DEF Texts
  <2> QED BY <2>2 DEF Behind, t, j
<1>3. PartText(parts[k]) \o Behind(parts, k) = PartFrom(parts[k], parts[k].pad[1], Behind(parts, k))
  BY <1>1, <1>2, PartTextIs
<1> QED BY <1>2, <1>3, TextsOfIs

LEMMA BehindFacts ==
  ASSUME NEW parts \in Seq(Part), NEW k \in 1..Len(parts)
  PROVE  /\ k = Len(parts) => Behind(parts, k) = <<>>
         /\ k # Len(parts) => /\ Behind(parts, k) # <<>> /\ Behind(parts, k)[1] = Joint(parts[k + 1])
                              /\ Tail(Behind(parts, k))
                                   = PartFrom(parts[k + 1], parts[k + 1].pad[1], Behind(parts, k + 1))
<1> SUFFICES ASSUME k # Len(parts)
             PROVE  /\ Behind(parts, k) # <<>> /\ Behind(parts, k)[1] = Joint(parts[k + 1])
                    /\ Tail(Behind(parts, k)) = PartFrom(parts[k + 1], parts[k + 1].pad[1], Behind(parts, k + 1))
  BY DEF Behind
<1> DEFINE t == TextsOf(parts)[k + 1]
           j == Joint(parts[k + 1])
<1>1. k + 1 \in 1..Len(parts) /\ k + 1 \in 1..(Len(parts) + 1)
  OBVIOUS
<1>2. t \in Texts /\ j \in Tokens
  BY <1>1, TextsOfIs, JointTyped
<1>3. t = PartFrom(parts[k + 1], parts[k + 1].pad[1], Behind(parts, k + 1))
  BY <1>1, TextFrom
<1>4. Behind(parts, k) = <<j>> \o t
  BY DEF Behind
<1> HIDE DEF t, j
<1>5. <<j>> \o t # <<>> /\ (<<j>> \o t)[1] = j /\ Tail(<<j>> \o t) = t
  BY <1>2, MarkBefore DEF Texts
<1> QED BY <1>3, <1>4, <1>5 DEF j

LEMMA WordBefore ==
  ASSUME NEW w \in Words, NEW t \in Texts
  PROVE  w \o t \in Texts /\ w \o t # <<>> /\ (w \o t)[1] # Blank
<1>1. w \in Texts /\ w # <<>> /\ \A j \in 1..Len(w) : w[j] \notin Separators
  BY WordTyped
<1>2. Len(w) \in Nat \ {0} /\ Len(t) \in Nat
  BY <1>1, EmptySeq DEF Texts
<1>3. w \o t \in Seq(Tokens) /\ Len(w \o t) = Len(w) + Len(t) /\ \A j \in 1..Len(w) : (w \o t)[j] = w[j]
  BY <1>1, ConcatParts DEF Texts
<1>4. (w \o t)[1] = w[1] /\ w[1] \notin Separators /\ Len(w \o t) # 0
  BY <1>1, <1>2, <1>3
<1>5. Blank \in Separators
  BY DEF Blank, Separators
<1>6. Len(<<>>) = 0
  OBVIOUS
<1> QED BY <1>3, <1>4, <1>5, <1>6 DEF Texts

(* With the spaces before a part gone, its word is first. *)
LEMMA PartStripped ==
  ASSUME NEW part \in Part, NEW b \in Nat, NEW tail \in Texts
  PROVE  /\ PartFrom(part, b, tail) # <<>>
         /\ remove_leading(PartFrom(part, b, tail), Blank) = PartFrom(part, 0, tail)
<1> DEFINE w == part.left
           c == Spaces(part.pad[2])
           d == <<part.mark>>
           e == Spaces(part.pad[3])
           f == part.right
           g == Spaces(part.pad[4])
           t == c \o (d \o (e \o (f \o (g \o tail))))
<1>1. t \in Texts
  <2>1. c \in Texts /\ d \in Texts /\ e \in Texts /\ f \in Texts /\ g \in Texts
    BY PartFacts, SpacesTyped, WordTyped, MarkTyped
  <2> HIDE DEF c, d, e, f, g
  <2>2. Cat(c, Cat(d, Cat(e, Cat(f, Cat(g, tail))))) \in Texts
    BY <2>1, CatTyped
  <2> QED BY <2>2 DEF Cat
<1>2. w \in Words
  BY PartFacts
<1>3. \A n : PartFrom(part, n, tail) = Spaces(n) \o (w \o t)
  BY DEF PartFrom
<1> HIDE DEF w, t
<1>4. w \o t \in Texts /\ w \o t # <<>> /\ (w \o t)[1] # Blank
  BY <1>1, <1>2, WordBefore
<1> DEFINE body == w \o t
<1> HIDE DEF body
<1>5. body \in Texts /\ body # <<>> /\ body[1] # Blank
  BY <1>4 DEF body
<1>6. remove_leading(Spaces(b) \o body, Blank) = body
  BY <1>5, LeadingGone
<1>7. Spaces(0) \o body = body
  <2>1. Spaces(0) \in Texts /\ Len(Spaces(0)) = 0
    BY SpacesTyped
  <2>2. Spaces(0) = <<>>
    BY <2>1, EmptySeq DEF Texts
  <2> QED BY <1>5, <2>2 DEF Texts
<1>8. Spaces(b) \o body # <<>>
  <2>1. Len(Spaces(b) \o body) = b + Len(body) /\ Len(body) \in Nat \ {0} /\ Len(<<>>) = 0
    BY <1>5, SpacesBefore, EmptySeq DEF Texts
  <2>2. \A l \in Nat \ {0} : b + l # 0
    OBVIOUS
  <2>3. b + Len(body) # 0
    BY <2>1, <2>2
  <2> QED BY <2>1, <2>3
<1>9. PartFrom(part, b, tail) = Spaces(b) \o body /\ PartFrom(part, 0, tail) = Spaces(0) \o body
  BY <1>3 DEF body
<1> QED BY <1>6, <1>7, <1>8, <1>9

-----------------------------------------------------------------------------
(* What has been read of an entry with each of its parts.                  *)

Entries == Seq([group : Texts, type : Texts, q : 1..10])

(* Its quality is read if one of the parts so far is it. *)
QualityBy(parts, k) == \E j \in 1..k : parts[j].of = parts[k].of /\ IsQuality(parts[j])

EntryBy(parts, entries, k) ==
  [group |-> entries[parts[k].of].group, type |-> entries[parts[k].of].type,
   q |-> IF QualityBy(parts, k) THEN entries[parts[k].of].q ELSE 10]

LEMMA RangeOrParameter ==
  ASSUME NEW part \in Part
  PROVE  /\ IsRange(part) => ~IsQuality(part) /\ part.mark = "/" /\ Joint(part) = ","
         /\ ~IsRange(part) => part.mark = "=" /\ Joint(part) = ";"
<1>1. part.mark \in {"/", "="}
  BY PartFacts
<1> QED BY <1>1, Zenon DEF IsRange, IsQuality, Joint

LEMMA EntryFacts ==
  ASSUME NEW entries \in Entries, NEW i \in DOMAIN entries
  PROVE  /\ entries[i].q \in 1..10
         /\ entries[i] = [group |-> entries[i].group, type |-> entries[i].type, q |-> entries[i].q]
<1> DEFINE S == [group : Texts, type : Texts, q : 1..10]
<1>1. entries \in Seq(S)
  BY DEF Entries
<1> HIDE DEF S
<1>2. entries[i] \in S
  BY <1>1
<1> QED BY <1>2 DEF S

LEMMA WholeEntry ==
  ASSUME NEW parts, NEW entries \in Entries, Means(parts, entries), Written(parts, entries),
         NEW k \in 1..Len(parts), k = Len(parts) \/ IsRange(parts[k + 1])
  PROVE  EntryBy(parts, entries, k) = entries[parts[k].of]
<1> DEFINE i == parts[k].of
<1>1. i \in 1..Len(entries) /\ DOMAIN entries = 1..Len(entries) /\ DOMAIN parts = 1..Len(parts)
  BY DEF Written, Entries
<1>2. ASSUME entries[i].q # 10 PROVE QualityBy(parts, k)
  <2>1. PICK j \in DOMAIN parts : parts[j].of = i /\ IsQuality(parts[j])
    BY <1>1, <1>2 DEF Means, IsQuality
  <2>2. j \in 1..Len(parts) /\ j <= k
    BY <1>1, <2>1, EntryWhole
  <2>3. j \in 1..k
    BY <2>2
  <2> QED BY <2>1, <2>3 DEF QualityBy
<1>3. (IF QualityBy(parts, k) THEN entries[i].q ELSE 10) = entries[i].q
  BY <1>2
<1>4. entries[i] = [group |-> entries[i].group, type |-> entries[i].type, q |-> entries[i].q]
  BY <1>1, EntryFacts
<1> QED BY <1>3, <1>4 DEF EntryBy

LEMMA EntryBegun ==
  ASSUME NEW parts, NEW entries \in Entries, Means(parts, entries), Written(parts, entries),
         NEW k \in 1..Len(parts), IsRange(parts[k])
  PROVE  /\ EntryBy(parts, entries, k) = [group |-> parts[k].left, type |-> parts[k].right, q |-> 10]
         /\ parts[k].left = Any => parts[k].right = Any
<1>1. DOMAIN parts = 1..Len(parts)
  BY DEF Written
<1>2. /\ parts[k].left = entries[parts[k].of].group /\ parts[k].right = entries[parts[k].of].type
      /\ parts[k].left = Any => parts[k].right = Any
  BY <1>1 DEF Means, IsRange
<1>3. ~QualityBy(parts, k)
  <2> SUFFICES ASSUME NEW j \in 1..k, parts[j].of = parts[k].of, IsQuality(parts[j]) PROVE FALSE
    BY DEF QualityBy
  <2>1. j = k \/ j \in 1..(k - 1)
    OBVIOUS
  <2>2. ~IsQuality(parts[k])
    <3>1. parts[k] \in Part
      BY DEF Written
    <3> QED BY <3>1, RangeOrParameter
  <2>3. \A h \in 1..(k - 1) : parts[h].of # parts[k].of
    BY DEF Written
  <2> QED BY <2>1, <2>2, <2>3
<1> QED BY <1>2, <1>3 DEF EntryBy

LEMMA QualityRead ==
  ASSUME NEW parts, NEW entries \in Entries, Means(parts, entries), Written(parts, entries),
         NEW k \in 1..Len(parts), IsQuality(parts[k])
  PROVE  /\ Convertible(parts[k].right) /\ Quality(parts[k].right) = entries[parts[k].of].q
         /\ ~OutOfRange(entries[parts[k].of].q)
<1>1. DOMAIN parts = 1..Len(parts) /\ parts[k].of \in DOMAIN entries
  BY DEF Written, Entries
<1>2. PICK w \in DOMAIN Number : parts[k].right = <<w>> /\ entries[parts[k].of].q = Number[w]
  BY <1>1 DEF Means, IsQuality
<1>3. Head(<<w>>) = w
  OBVIOUS
<1>4. Convertible(parts[k].right) /\ Quality(parts[k].right) = entries[parts[k].of].q
  BY <1>2, <1>3, Zenon DEF Convertible, Quality
<1>5. entries[parts[k].of].q \in 1..10
  BY <1>1, EntryFacts
<1> DEFINE q == entries[parts[k].of].q
<1> HIDE DEF q
<1>6. q \in 1..10 => ~OutOfRange(q)
  BY DEF OutOfRange, NaN
<1> QED BY <1>4, <1>5, <1>6 DEF q

LEMMA EntryContinued ==
  ASSUME NEW parts, NEW entries \in Entries, Means(parts, entries), Written(parts, entries),
         NEW k \in 1..(Len(parts) - 1), ~IsRange(parts[k + 1])
  PROVE  EntryBy(parts, entries, k + 1) =
           IF IsQuality(parts[k + 1])
           THEN [EntryBy(parts, entries, k) EXCEPT !.q = entries[parts[k + 1].of].q]
           ELSE EntryBy(parts, entries, k)
<1>1. parts[k + 1].of = parts[k].of
  BY NextPart
<1>2. CASE IsQuality(parts[k + 1])
  <2>1. QualityBy(parts, k + 1)
    <3>1. k + 1 \in 1..(k + 1)
      OBVIOUS
    <3> QED BY <1>2, <3>1 DEF QualityBy
  <2> QED BY <1>1, <1>2, <2>1 DEF EntryBy
<1>3. CASE ~IsQuality(parts[k + 1])
  <2>1. QualityBy(parts, k + 1) <=> QualityBy(parts, k)
    <3>1. \A j \in 1..(k + 1) : j = k + 1 \/ j \in 1..k
      OBVIOUS
    <3>2. 1..k \subseteq 1..(k + 1)
      OBVIOUS
    <3> QED BY <1>1, <1>3, <3>1, <3>2 DEF QualityBy
  <2> QED BY <1>1, <1>3, <2>1 DEF EntryBy
<1> QED BY <1>2, <1>3

-----------------------------------------------------------------------------
(* Where the reading of a header that is written as it should be can be.   *)

DoneBy(parts, k) == IF k = 0 THEN 0 ELSE parts[k].of

LeftAt(parts, k, hdr) == \E b \in Nat : hdr = PartFrom(parts[k], b, Behind(parts, k))

(* Behind part k, at its end or before another entry. *)
RangeAt(parts, entries, k, hdr, read) ==
  /\ k = Len(parts) => hdr = <<>>
  /\ k # Len(parts) => IsRange(parts[k + 1]) /\ LeftAt(parts, k + 1, hdr)
  /\ read = SubSeq(entries, 1, DoneBy(parts, k))

(* Behind part k, before a parameter of the same entry. *)
ParameterAt(parts, entries, k, hdr, read, entry) ==
  /\ ~IsRange(parts[k + 1]) /\ LeftAt(parts, k + 1, hdr)
  /\ read = SubSeq(entries, 1, parts[k].of - 1)
  /\ entry = EntryBy(parts, entries, k)

Reading(parts, entries) ==
  /\ pc \in {"construct", "add"} => accepts = <<>>
  /\ pc # "Http400BadRequest"
  /\ pc = "range" => \E k \in 0..Len(parts) : RangeAt(parts, entries, k, acceptHdr, accepts)
  /\ pc = "parameter" =>
       \E k \in 1..(Len(parts) - 1) : ParameterAt(parts, entries, k, acceptHdr, accepts, accept)

ReadInv == Read => Reading(request.parts, wanted)

(* What the two are of: a header's parts, and its entries. *)
Header(parts, entries) ==
  parts \in Seq(Part) /\ entries \in Entries /\ Means(parts, entries) /\ Written(parts, entries)

LEMMA OneMoreRead ==
  ASSUME NEW S, NEW s \in Seq(S), NEW i \in 1..Len(s)
  PROVE  Append(SubSeq(s, 1, i - 1), s[i]) = SubSeq(s, 1, i)
  OBVIOUS

(* When a part is read, the reading is behind it. *)
LEMMA PartDone ==
  ASSUME NEW parts, NEW entries, Header(parts, entries), NEW k \in 1..Len(parts),
         accepts = SubSeq(entries, 1, parts[k].of - 1),
         NEW found, NEW w, Found(found, w, Behind(parts, k)), GoOn(EntryBy(parts, entries, k), found)
  PROVE  /\ pc' \in {"range", "parameter"}
         /\ pc' = "range" => \E h \in 0..Len(parts) : RangeAt(parts, entries, h, acceptHdr', accepts')
         /\ pc' = "parameter" =>
              \E h \in 1..(Len(parts) - 1) : ParameterAt(parts, entries, h, acceptHdr', accepts', accept')
<1>1. parts \in Seq(Part) /\ entries \in Entries /\ Means(parts, entries) /\ Written(parts, entries)
      /\ Len(parts) \in Nat /\ k \in 0..Len(parts) /\ k # 0
  BY DEF Header
<1>2. accept' = EntryBy(parts, entries, k) /\ acceptHdr' = found.rest
  BY DEF GoOn
<1>3. ASSUME k = Len(parts) \/ IsRange(parts[k + 1])
      PROVE  Append(accepts, EntryBy(parts, entries, k)) = SubSeq(entries, 1, DoneBy(parts, k))
  <2>1. EntryBy(parts, entries, k) = entries[parts[k].of]
    BY <1>1, <1>3, WholeEntry
  <2>2. parts[k].of \in 1..Len(entries)
    BY <1>1 DEF Written
  <2> DEFINE S == [group : Texts, type : Texts, q : 1..10]
  <2>3. entries \in Seq(S)
    BY <1>1 DEF Entries
  <2> HIDE DEF S
  <2>4. Append(SubSeq(entries, 1, parts[k].of - 1), entries[parts[k].of]) = SubSeq(entries, 1, parts[k].of)
    BY <2>2, <2>3, OneMoreRead
  <2> QED BY <1>1, <2>1, <2>4 DEF DoneBy
<1>4. CASE k = Len(parts)
  <2>1. found.term = "\n" /\ found.rest = <<>>
    BY <1>1, <1>4, BehindFacts DEF Found
  <2>2. pc' = "range" /\ accepts' = Append(accepts, EntryBy(parts, entries, k))
    <3>1. found.term # ";"
      BY <2>1, Zenon
    <3> QED BY <3>1, Zenon DEF GoOn
  <2>3. RangeAt(parts, entries, k, acceptHdr', accepts')
    BY <1>2, <1>3, <1>4, <2>1, <2>2 DEF RangeAt
  <2> QED BY <1>1, <2>2, <2>3, Zenon
<1>5. CASE k # Len(parts)
  <2>1. /\ k \in 1..(Len(parts) - 1) /\ k + 1 \in 1..Len(parts)
        /\ found.term = Joint(parts[k + 1]) /\ parts[k + 1] \in Part
        /\ found.rest = PartFrom(parts[k + 1], parts[k + 1].pad[1], Behind(parts, k + 1))
    <3>1. k \in 1..(Len(parts) - 1) /\ k + 1 \in 1..Len(parts)
      BY <1>1, <1>5
    <3>2. /\ Behind(parts, k) # <<>> /\ Behind(parts, k)[1] = Joint(parts[k + 1])
          /\ Tail(Behind(parts, k)) = PartFrom(parts[k + 1], parts[k + 1].pad[1], Behind(parts, k + 1))
      BY <1>1, <1>5, BehindFacts
    <3>3. found.term = Behind(parts, k)[1] /\ found.rest = Tail(Behind(parts, k))
      BY <3>2, Zenon DEF Found
    <3>4. parts[k + 1] \in Part
      BY <1>1, <3>1
    <3> QED BY <3>1, <3>2, <3>3, <3>4
  <2>2. LeftAt(parts, k + 1, acceptHdr')
    <3>1. parts[k + 1].pad[1] \in Nat
      BY <2>1, PartFacts
    <3> QED BY <1>2, <2>1, <3>1, Zenon DEF LeftAt
  <2>3. CASE IsRange(parts[k + 1])
    <3>1. found.term # ";"
      <4>1. found.term = ","
        BY <2>1, <2>3, RangeOrParameter, Zenon
      <4> QED BY <4>1, Zenon
    <3>2. pc' = "range" /\ accepts' = Append(accepts, EntryBy(parts, entries, k))
      BY <3>1, Zenon DEF GoOn
    <3>3. RangeAt(parts, entries, k, acceptHdr', accepts')
      BY <1>3, <1>5, <2>2, <2>3, <3>2, Zenon DEF RangeAt
    <3> QED BY <1>1, <3>2, <3>3, Zenon
  <2>4. CASE ~IsRange(parts[k + 1])
    <3>1. found.term = ";"
      BY <2>1, <2>4, RangeOrParameter, Zenon
    <3>2. pc' = "parameter" /\ accepts' = accepts
      BY <3>1, Zenon DEF GoOn
    <3>3. ParameterAt(parts, entries, k, acceptHdr', accepts', accept')
      BY <1>2, <2>2, <2>4, <3>2 DEF ParameterAt
    <3> QED BY <2>1, <3>2, <3>3, Zenon
  <2> QED BY <2>3, <2>4
<1> QED BY <1>4, <1>5

LEMMA WrittenHeader ==
  ASSUME request \in Requests, Read
  PROVE  Header(request.parts, wanted) /\ request.text = HeaderText(request.parts)
<1>1. /\ wanted # <<>> /\ wanted \in Entries
      /\ request.parts \in Seq(Part) /\ Means(request.parts, wanted) /\ request.text = HeaderText(request.parts)
  BY RequestsAssumption DEF Read, wanted, Entries, Texts
<1> DEFINE S == [group : Texts, type : Texts, q : 1..10]
           parts == request.parts
<1>2. wanted \in Seq(S)
  BY <1>1 DEF Entries
<1> HIDE DEF S, parts, wanted
<1>3. parts \in Seq(Part) /\ Means(parts, wanted)
  BY <1>1 DEF parts
<1>4. Written(parts, wanted)
  BY <1>1, <1>2, <1>3, WrittenFacts
<1> QED BY <1>1, <1>3, <1>4 DEF parts, Header

LEMMA Begun ==
  ASSUME NEW parts, NEW entries, Header(parts, entries)
  PROVE  /\ remove_leading(HeaderText(parts), " ") # <<>>
         /\ RangeAt(parts, entries, 0, remove_leading(HeaderText(parts), " "), <<>>)
<1>1. /\ 1 \in 1..Len(parts) /\ IsRange(parts[1]) /\ parts[1] \in Part /\ parts \in Seq(Part)
      /\ entries \in Entries /\ Len(parts) # 0
  <2>1. parts \in Seq(Part) /\ entries \in Entries /\ Written(parts, entries)
    BY DEF Header
  <2>2. 1 \in 1..Len(parts) /\ IsRange(parts[1])
    BY <2>1, FirstPart
  <2> QED BY <2>1, <2>2
<1> DEFINE tail == Behind(parts, 1)
           left == remove_leading(HeaderText(parts), Blank)
<1>2. tail \in Texts /\ HeaderText(parts) = PartFrom(parts[1], parts[1].pad[1], tail)
  BY <1>1, TextFrom, HeaderTextIs
<1> HIDE DEF tail
<1>3. parts[1].pad[1] \in Nat /\ 0 \in Nat
  BY <1>1, PartFacts
<1>4. left = PartFrom(parts[1], 0, tail) /\ PartFrom(parts[1], 0, tail) # <<>>
  BY <1>1, <1>2, <1>3, PartStripped
<1> HIDE DEF left
<1>5. LeftAt(parts, 1, left)
  BY <1>3, <1>4, Zenon DEF LeftAt, tail
<1>6. <<>> = SubSeq(entries, 1, DoneBy(parts, 0))
  <2> DEFINE S == [group : Texts, type : Texts, q : 1..10]
  <2>1. entries \in Seq(S)
    BY <1>1 DEF Entries
  <2> HIDE DEF S
  <2>2. SubSeq(entries, 1, 0) = <<>>
    BY <2>1
  <2> QED BY <2>2 DEF DoneBy
<1>7. 0 + 1 = 1
  OBVIOUS
<1>8. RangeAt(parts, entries, 0, left, <<>>)
  BY <1>1, <1>5, <1>6, <1>7 DEF RangeAt
<1> QED BY <1>4, <1>8 DEF left, Blank

LEMMA EndsAreMarks ==
  ASSUME NEW parts, NEW entries, Header(parts, entries), NEW k \in 1..Len(parts), NEW ends, ends = {",", ";"}
  PROVE  /\ ends \subseteq Separators /\ Blank \notin ends
         /\ Behind(parts, k) # <<>> => Behind(parts, k)[1] \in ends
<1>1. ends \subseteq Separators /\ Blank \notin ends /\ \A part : Joint(part) \in ends
  BY Zenon DEF Separators, Blank, Joint
<1>2. Behind(parts, k) # <<>> => Behind(parts, k)[1] = Joint(parts[k + 1])
  BY BehindFacts DEF Header
<1> QED BY <1>1, <1>2, Zenon

(* The reading goes on, behind one of the parts. *)
GoesOn(parts, entries) ==
  /\ pc' \in {"range", "parameter"}
  /\ pc' = "range" => \E h \in 0..Len(parts) : RangeAt(parts, entries, h, acceptHdr', accepts')
  /\ pc' = "parameter" =>
       \E h \in 1..(Len(parts) - 1) : ParameterAt(parts, entries, h, acceptHdr', accepts', accept')

LEMMA RangeRead ==
  ASSUME NEW parts, NEW entries, Header(parts, entries), NEW k \in 0..Len(parts),
         RangeAt(parts, entries, k, acceptHdr, accepts), ReadRange
  PROVE  GoesOn(parts, entries)
<1> DEFINE m == k + 1
           part == parts[m]
           tail == Behind(parts, m)
           ends == {",", ";"}
           group == upto(acceptHdr, {"/"}, TRUE)
           type  == upto(group.rest, {";", ","}, FALSE)
<1>1. parts \in Seq(Part) /\ entries \in Entries /\ Means(parts, entries) /\ Written(parts, entries)
      /\ Len(parts) \in Nat
  BY DEF Header
<1>2. k # Len(parts) /\ IsRange(part) /\ LeftAt(parts, m, acceptHdr)
  BY DEF RangeAt, ReadRange
<1>3. m \in 1..Len(parts) /\ part \in Part
  BY <1>1, <1>2
<1>4. PICK b \in Nat : acceptHdr = PartFrom(part, b, tail)
  BY <1>2 DEF LeftAt
<1>5. tail \in Texts
  BY <1>1, <1>3, TextFrom
<1>6. ends \subseteq Separators /\ Blank \notin ends /\ (tail # <<>> => tail[1] \in ends)
  <2> HIDE DEF ends, m
  <2>1. ends = {",", ";"}
    BY DEF ends
  <2> QED BY <1>3, <2>1, EndsAreMarks
<1>7. part.mark = "/" /\ {";", ","} = ends
  BY <1>2 DEF IsRange
<1> HIDE DEF ends, tail, part
<1>8. group.ok /\ group.val = part.left /\ Found(type, part.right, tail)
  <2> DEFINE first  == upto(PartFrom(part, b, tail), {part.mark}, TRUE)
             second == upto(first.rest, ends, FALSE)
  <2>1. first.ok /\ first.val = part.left /\ Found(second, part.right, tail)
    BY <1>3, <1>5, <1>6, PartRead
  <2>2. first = group
    BY <1>4, <1>7, Zenon
  <2>3. second = type
    BY <1>7, <2>2, Zenon
  <2> QED BY <2>1, <2>2, <2>3, Zenon
<1>9. EntryBy(parts, entries, m) = [group |-> part.left, type |-> part.right, q |-> 10]
      /\ (part.left = Any => part.right = Any)
  BY <1>1, <1>2, <1>3, EntryBegun DEF part
<1>10. type.ok /\ type.val = part.right
  BY <1>8, Zenon DEF Found
<1>11. GoOn(EntryBy(parts, entries, m), type)
  <2>1. IF group.ok /\ type.ok /\ (group.val = Any => type.val = Any)
        THEN GoOn([group |-> group.val, type |-> type.val, q |-> 10], type)
        ELSE Refuse
    BY Zenon DEF ReadRange
  <2> HIDE DEF group, type
  <2>2. GoOn([group |-> group.val, type |-> type.val, q |-> 10], type)
    BY <1>8, <1>9, <1>10, <2>1, Zenon
  <2> QED BY <1>8, <1>9, <1>10, <2>2, Zenon
<1>12. accepts = SubSeq(entries, 1, parts[m].of - 1)
  <2>1. accepts = SubSeq(entries, 1, DoneBy(parts, k))
    BY DEF RangeAt
  <2>2. DoneBy(parts, k) = parts[m].of - 1
    <3>1. CASE k = 0
      <4>1. parts[1].of = 1 /\ m = 1
        BY <1>1, <3>1, FirstPart
      <4> QED BY <3>1, <4>1 DEF DoneBy
    <3>2. CASE k # 0
      <4>1. k \in 1..(Len(parts) - 1)
        BY <1>1, <1>2, <3>2
      <4>2. parts[m].of = parts[k].of + 1
        BY <1>1, <1>2, <4>1, NextPart DEF part
      <4>3. parts[k].of \in Nat
        BY <1>1, <4>1 DEF Written
      <4> QED BY <3>2, <4>2, <4>3 DEF DoneBy
    <3> QED BY <3>1, <3>2
  <2> QED BY <2>1, <2>2
<1> HIDE DEF m, type
<1> QED BY <1>3, <1>8, <1>11, <1>12, PartDone DEF GoesOn, tail

LEMMA ParameterRead ==
  ASSUME NEW parts, NEW entries, Header(parts, entries), NEW k \in 1..(Len(parts) - 1),
         ParameterAt(parts, entries, k, acceptHdr, accepts, accept), ReadParameter
  PROVE  GoesOn(parts, entries)
<1> DEFINE m == k + 1
           part == parts[m]
           tail == Behind(parts, m)
           ends == {",", ";"}
           name  == upto(acceptHdr, {"="}, TRUE)
           value == upto(name.rest, {",", ";"}, FALSE)
<1>1. parts \in Seq(Part) /\ entries \in Entries /\ Means(parts, entries) /\ Written(parts, entries)
      /\ Len(parts) \in Nat
  BY DEF Header
<1>2. ~IsRange(part) /\ LeftAt(parts, m, acceptHdr)
  BY DEF ParameterAt
<1>3. m \in 1..Len(parts) /\ part \in Part
  BY <1>1
<1>4. PICK b \in Nat : acceptHdr = PartFrom(part, b, tail)
  BY <1>2 DEF LeftAt
<1>5. tail \in Texts
  BY <1>1, <1>3, TextFrom
<1>6. ends \subseteq Separators /\ Blank \notin ends /\ (tail # <<>> => tail[1] \in ends)
  <2> HIDE DEF ends, m
  <2>1. ends = {",", ";"}
    BY DEF ends
  <2> QED BY <1>3, <2>1, EndsAreMarks
<1>7. part.mark = "="
  BY <1>2, <1>3, RangeOrParameter
<1>8. name.ok /\ name.val = part.left /\ Found(value, part.right, tail)
  <2> HIDE DEF tail, part
  <2> DEFINE first  == upto(PartFrom(part, b, tail), {part.mark}, TRUE)
             second == upto(first.rest, ends, FALSE)
  <2>1. first.ok /\ first.val = part.left /\ Found(second, part.right, tail)
    <3> HIDE DEF ends
    <3> QED BY <1>3, <1>5, <1>6, PartRead
  <2>2. first = name
    BY <1>4, <1>7, Zenon
  <2>3. second = value
    BY <2>2, Zenon
  <2> QED BY <2>1, <2>2, <2>3, Zenon
<1> HIDE DEF ends
<1>9. value.ok /\ value.val = part.right
  BY <1>8, Zenon DEF Found
<1>10. accept = EntryBy(parts, entries, k)
  BY DEF ParameterAt
<1>11. EntryBy(parts, entries, m) = IF IsQuality(part) THEN [accept EXCEPT !.q = entries[part.of].q] ELSE accept
  BY <1>1, <1>2, <1>10, EntryContinued
<1>12. GoOn(EntryBy(parts, entries, m), value)
  <2>1. IF ~name.ok \/ ~value.ok THEN Refuse
        ELSE IF name.val # <<"q">> THEN GoOn(accept, value)
        ELSE IF ~Convertible(value.val) THEN Refuse
        ELSE IF OutOfRange(Quality(value.val)) THEN Refuse
        ELSE GoOn([accept EXCEPT !.q = Quality(value.val)], value)
    BY Zenon DEF ReadParameter
  <2>2. IsQuality(part) <=> part.left = <<"q">>
    BY <1>7 DEF IsQuality
  <2>3. IsQuality(part) => /\ Convertible(part.right) /\ Quality(part.right) = entries[part.of].q
                           /\ ~OutOfRange(entries[part.of].q)
    BY <1>1, <1>3, QualityRead
  <2> HIDE DEF name, value, part, m
  <2>4. CASE IsQuality(part)
    <3>1. GoOn([accept EXCEPT !.q = Quality(value.val)], value)
      BY <1>8, <1>9, <2>1, <2>2, <2>3, <2>4, Zenon
    <3>2. [accept EXCEPT !.q = Quality(value.val)] = EntryBy(parts, entries, m)
      BY <1>9, <1>11, <2>3, <2>4, Zenon
    <3> QED BY <3>1, <3>2, Zenon
  <2>5. CASE ~IsQuality(part)
    <3>1. GoOn(accept, value)
      BY <1>8, <1>9, <2>1, <2>2, <2>5, Zenon
    <3> QED BY <1>11, <2>5, <3>1, Zenon
  <2> QED BY <2>4, <2>5
<1>13. accepts = SubSeq(entries, 1, parts[m].of - 1)
  <2>1. parts[m].of = parts[k].of
    BY <1>1, <1>2, NextPart
  <2> QED BY <2>1 DEF ParameterAt
<1> HIDE DEF m, value, tail
<1> QED BY <1>3, <1>8, <1>12, <1>13, PartDone DEF GoesOn, tail

LEMMA InitReadInv == Init => ReadInv
  BY DEF Init, ReadInv, Reading

LEMMA StepReadInv ==
  ASSUME TypeInv, ReadInv, [Next]_vars
  PROVE  ReadInv'
<1>1. request' = request /\ wanted' = wanted /\ (Read' <=> Read)
  BY DEF Next, AddDefaultSerializers, addRouteSerializer, getSerializer, ReadRange, ReadParameter,
         Sort, Choose, Answered, vars, wanted, Read
<1> SUFFICES ASSUME Read PROVE Reading(request.parts, wanted)'
  BY <1>1 DEF ReadInv
<1> DEFINE parts == request.parts
           entries == wanted
<1>2. Header(parts, entries) /\ request.text = HeaderText(parts) /\ request.text # None
  BY WrittenHeader DEF TypeInv, Read
<1>3. Reading(parts, entries) /\ parts' = parts /\ entries' = entries
  BY <1>1 DEF ReadInv
<1> HIDE DEF parts, entries
<1>4. CASE AddDefaultSerializers \/ addRouteSerializer
  BY <1>3, <1>4 DEF AddDefaultSerializers, addRouteSerializer, Reading, parts, entries
<1>5. CASE getSerializer
  <2> DEFINE left == remove_leading(HeaderText(parts), " ")
  <2>1. left # <<>> /\ RangeAt(parts, entries, 0, left, <<>>)
    BY <1>2, Begun
  <2>2. accepts = <<>> /\ accepts' = accepts /\ acceptHdr' = left /\ pc' = "range"
    BY <1>2, <1>3, <1>5, <2>1 DEF getSerializer, Reading
  <2> HIDE DEF left
  <2>3. 0 \in 0..Len(parts) /\ RangeAt(parts, entries, 0, acceptHdr', accepts')
    <3>1. Len(parts) \in Nat
      BY <1>2 DEF Header
    <3> QED BY <2>1, <2>2, <3>1
  <2> QED BY <1>3, <2>2, <2>3 DEF Reading, parts, entries
<1>6. CASE ReadRange
  <2>1. PICK k \in 0..Len(parts) : RangeAt(parts, entries, k, acceptHdr, accepts)
    BY <1>3, <1>6 DEF Reading, ReadRange
  <2>2. GoesOn(parts, entries)
    BY <1>2, <1>6, <2>1, RangeRead
  <2> QED BY <1>3, <2>2 DEF GoesOn, Reading, parts, entries
<1>7. CASE ReadParameter
  <2>1. PICK k \in 1..(Len(parts) - 1) : ParameterAt(parts, entries, k, acceptHdr, accepts, accept)
    BY <1>3, <1>7 DEF Reading, ReadParameter
  <2>2. GoesOn(parts, entries)
    BY <1>2, <1>7, <2>1, ParameterRead
  <2> QED BY <1>3, <2>2 DEF GoesOn, Reading, parts, entries
<1>8. CASE Sort \/ Choose
  BY <1>3, <1>8 DEF Sort, Choose, Reading, parts, entries
<1>9. CASE Answered \/ UNCHANGED vars
  BY <1>3, <1>9 DEF Answered, vars, Reading, parts, entries
<1> QED BY <1>4, <1>5, <1>6, <1>7, <1>8, <1>9 DEF Next

LEMMA AllRead ==
  ASSUME TypeInv, ReadInv
  PROVE  ReadAsWritten
<1> SUFFICES ASSUME Read, pc = "range", acceptHdr = <<>> PROVE accepts = wanted
  BY DEF ReadAsWritten
<1> DEFINE parts == request.parts
           entries == wanted
<1>1. Header(parts, entries)
  BY WrittenHeader DEF TypeInv
<1>2. PICK k \in 0..Len(parts) : RangeAt(parts, entries, k, acceptHdr, accepts)
  BY DEF ReadInv, Reading
<1> HIDE DEF parts, entries
<1>3. parts \in Seq(Part) /\ entries \in Entries /\ Written(parts, entries) /\ Len(parts) \in Nat
  BY <1>1 DEF Header
<1>4. k = Len(parts)
  <2> SUFFICES ASSUME k # Len(parts) PROVE FALSE
    OBVIOUS
  <2>1. k + 1 \in 1..Len(parts)
    BY <1>3
  <2>2. parts[k + 1] \in Part
    BY <1>3, <2>1
  <2>3. PICK b \in Nat : acceptHdr = PartFrom(parts[k + 1], b, Behind(parts, k + 1))
    BY <1>2 DEF RangeAt, LeftAt
  <2>4. Behind(parts, k + 1) \in Texts
    BY <1>3, <2>1, TextFrom
  <2> QED BY <2>2, <2>3, <2>4, PartStripped
<1>5. accepts = SubSeq(entries, 1, Len(entries))
  <2>1. Len(parts) \in 1..Len(parts) /\ parts[Len(parts)].of = Len(entries)
    BY <1>3, LastPart
  <2>2. Len(parts) # 0
    BY <1>3, <2>1
  <2> QED BY <1>2, <1>4, <2>1, <2>2 DEF RangeAt, DoneBy
<1>6. SubSeq(entries, 1, Len(entries)) = entries
  <2> DEFINE S == [group : Texts, type : Texts, q : 1..10]
  <2>1. entries \in Seq(S)
    BY <1>3 DEF Entries
  <2> HIDE DEF S
  <2> QED BY <2>1
<1> QED BY <1>5, <1>6 DEF entries

(* Of every header that is written as it should be, whatever its spaces and *)
(* parameters and however many entries it has, exactly the entries it was   *)
(* written from are read.                                                   *)
THEOREM HeaderIsReadAsWritten == Spec => []ReadAsWritten
  BY InitTypeInv, StepTypeInv, InitReadInv, StepReadInv, AllRead, PTL DEF Spec

(* No header that is written as it should be is answered with 400. *)
THEOREM NoGoodHeaderRefused == Spec => []NeverRefused
<1>1. ReadInv => NeverRefused
  BY DEF ReadInv, Reading, NeverRefused
<1> QED BY <1>1, InitTypeInv, StepTypeInv, InitReadInv, StepReadInv, PTL DEF Spec

-----------------------------------------------------------------------------
(* The choice.                                                             *)

(* Of a header that is written as it should be, the answer is what the entry *)
(* wanted most of all that the route can serve asks for, and it is 406 only *)
(* if the route can serve none of them.                                     *)
THEOREM BestIsServed == Spec => []BestServed
<1>1. TypeInv /\ ChosenInv => BestServed
  <2> SUFFICES ASSUME TypeInv, ChosenInv, Read, pc \in {"served", "Http406NotAcceptable"}
               PROVE  BestServed
    BY DEF BestServed
  <2>1. PICK p \in StableOrders(wanted) : accepts = [j \in DOMAIN wanted |-> wanted[p[j]]]
    BY DEF ChosenInv, Sorted
  <2>2. DOMAIN accepts = DOMAIN wanted /\ \A j \in DOMAIN wanted : accepts[j] = wanted[p[j]]
    BY <2>1
  <2>3. DOMAIN wanted \subseteq Nat /\ request \in Requests
    BY WantedFacts DEF TypeInv
  <2>4. accepts[1] = wanted[Top]
    BY <2>2, <2>3, TopFirst
  <2>5. ASSUME pc = "served", ~AnythingFirst
        PROVE  \E a \in DOMAIN wanted :
                 /\ served.type \in Matching(wanted[a])
                 /\ \A b \in DOMAIN wanted : Before(wanted, b, a) => Matching(wanted[b]) = {}
    <3>1. PICK j \in DOMAIN wanted : /\ served.type \in Matching(wanted[p[j]])
                                     /\ \A i \in DOMAIN wanted : i < j => Matching(wanted[p[i]]) = {}
      BY <2>2, <2>5 DEF ChosenInv, FirstServed
    <3>2. ASSUME NEW b \in DOMAIN wanted, Before(wanted, b, p[j]) PROVE Matching(wanted[b]) = {}
      <4>1. PICK i \in DOMAIN wanted : p[i] = b
        BY <2>3, OrderFacts
      <4>2. i # j
        BY <2>3, <3>2, <4>1, OrderFacts
      <4>3. ~(j < i)
        BY <2>3, <3>2, <4>1, OrderFacts
      <4>4. i < j
        BY <2>3, <4>2, <4>3
      <4> QED BY <3>1, <4>1, <4>4
    <3>3. p[j] \in DOMAIN wanted
      BY <2>3, OrderFacts
    <3> QED BY <3>1, <3>2, <3>3
  <2>6. ASSUME pc = "Http406NotAcceptable", NEW a \in DOMAIN wanted PROVE Matching(wanted[a]) = {}
    <3>1. PICK j \in DOMAIN wanted : p[j] = a
      BY <2>3, OrderFacts
    <3> QED BY <2>2, <2>6, <3>1 DEF ChosenInv
  <2>7. AnythingFirst <=> wanted[Top].group = Any /\ wanted[Top].type = Any
    BY <2>4 DEF AnythingFirst
  <2>8. pc = "served" /\ AnythingFirst => served = [type |-> Json, by |-> 0]
    BY DEF ChosenInv
  <2> QED BY <2>5, <2>6, <2>7, <2>8 DEF BestServed
<1> QED BY <1>1, InitTypeInv, StepTypeInv, InitChosenInv, StepChosenInv, HeaderIsReadAsWritten, PTL DEF Spec
=============================================================================
