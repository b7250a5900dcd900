------------------------------- MODULE MCAccept -------------------------------
(* Headers for Accept: every text of up to four tokens on one route; texts    *)
(* written from one to three entries, in three styles, on several routes; and *)
(* qualities that are out of range, no number, or not a number.               *)
EXTENDS Accept

Html == [group |-> <<"text">>, type |-> <<"html">>]
MCCatalogue == << [group |-> <<"application">>, type |-> <<"json">>],
                  [group |-> <<"application">>, type |-> <<"xml">>],
                  [group |-> <<"image">>, type |-> <<"png">>],
                  Html >>

MCTokens == {" ", "/", ",", ";", "=", "*", "q", "v", "0", "0.5", "1", "1.5", "nan",
             "application", "text", "image", "html", "json", "xml", "png"}

SeqsUpTo(S, n) == UNION {[1..m -> S] : m \in 0..n}

Range(g, t, q) == [group |-> g, type |-> t, q |-> q]
Entries == {Range(Any, Any, q) : q \in {5, 10}} \cup {Range(<<"application">>, Any, q) : q \in {5, 10}}
  \cup {Range(Html.group, Html.type, q) : q \in {5, 10}} \cup {Range(<<"application">>, <<"xml">>, q) : q \in {5, 10}}

Piece(mark, left, right, pad, i) == [mark |-> mark, left |-> left, right |-> right, pad |-> pad, of |-> i]
Close == <<0, 0, 0, 0>>
Wide == <<1, 1, 1, 1>>
Q(e) == IF e.q = 5 THEN <<"0.5">> ELSE <<"1">>

Plain(e, i) == <<Piece("/", e.group, e.type, Close, i)>> \o
               (IF e.q = 10 THEN <<>> ELSE <<Piece("=", <<"q">>, Q(e), Close, i)>>)
Spaced(e, i) == <<Piece("/", e.group, e.type, Wide, i), Piece("=", <<"q">>, Q(e), Wide, i)>>
Laden(e, i) == <<Piece("/", e.group, e.type, Close, i), Piece("=", <<"v">>, <<"q">>, <<0, 2, 0, 0>>, i),
                 Piece("=", <<"q">>, Q(e), Close, i), Piece("=", <<"q", "v">>, <<"*">>, Close, i)>>

Written(es, Style(_, _)) ==
  LET parts[j \in 0..Len(es)] == IF j = 0 THEN <<>> ELSE parts[j - 1] \o Style(es[j], j)
  IN parts[Len(es)]

Route(d, o) == [defaults |-> d, own |-> o]
Routes == {Route(TRUE, <<>>), Route(FALSE, <<>>), Route(TRUE, <<1, 4>>), Route(FALSE, <<4, 4>>), Route(FALSE, <<3, 2>>)}

Ask(r, t) == [text |-> t, wanted |-> None, parts |-> <<>>, defaults |-> r.defaults, own |-> r.own]
Want(r, ps, w) == [Ask(r, HeaderText(ps)) EXCEPT !.wanted = w, !.parts = ps]

Lists == SeqsUpTo(Entries, 3) \ {<<>>}
Short == {es \in Lists : Len(es) <= 2}

MCRequests ==
  {Ask(Route(TRUE, <<4>>), t) : t \in {u \in SeqsUpTo({" ", "/", ",", ";", "=", "*", "q", "1"}, 4) : WholeNumbers(u)}} \cup
  {Want(r, Written(es, Spaced), es) : r \in Routes, es \in Short} \cup
  {Want(r, Written(es, Laden), es) : r \in Routes, es \in Short} \cup
  {Want(Route(TRUE, <<2, 4>>), Written(es, Plain), es) : es \in Lists} \cup
  {Ask(r, None) : r \in Routes} \cup
  {Ask(r, <<"text", "/", "html", ";", "q", "=", n, ",", "*", "/", "*">> \o end) :
     r \in Routes, n \in {"0", "1.5", "nan", "v"}, end \in {<<>>, <<",">>, <<",", " ">>, <<";">>}}

=============================================================================
