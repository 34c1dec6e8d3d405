----------------------------- MODULE MCGTIDSet -----------------------------
(***************************************************************************)
(* GTID sets of two sources with one tag and three numbers each.       *)
(***************************************************************************)
EXTENDS GTIDSet

iv(a, b) == [kind |-> "interval", lo |-> a, hi |-> b]
tg(t) == [kind |-> "tag", tag |-> t]
part(u, items) == [sid |-> u, items |-> items]

\* The empty string, adjacent, overlapping and repeated intervals in and out
\* of order, tags before and after intervals, one source in two parts, and
\* strings the parser refuses: a reversed interval after a good part, a tag
\* without interval, no interval at all, an unknown source.
MCStrings ==
  { <<>>,
    <<part(1, <<iv(3, 3), iv(1, 1)>>)>>,
    <<part(1, <<iv(1, 3), iv(2, 2)>>)>>,
    <<part(1, <<iv(1, 1), tg(1), iv(1, 1), iv(2, 3)>>)>>,
    <<part(2, <<iv(1, 1)>>), part(1, <<iv(3, 3)>>), part(2, <<iv(3, 3), tg(1), iv(2, 2)>>)>>,
    <<part(1, <<iv(1, 3)>>), part(2, <<iv(3, 2)>>)>>,
    <<part(2, <<iv(2, 2), tg(1)>>)>>,
    <<part(1, <<>>)>>,
    <<part(3, <<iv(1, 1)>>)>> }

MCMariaStrings ==
  { <<>>,
    << <<0, 1, 2>> >>,
    << <<0, 2, 1>>, <<1, 1, 1>> >>,
    << <<1, 2, 2>>, <<1, 1, 1>>, <<>> >>,
    << <<0, 1, 1>>, <<1>>, <<2, 1, 1>> >> }

=============================================================================
