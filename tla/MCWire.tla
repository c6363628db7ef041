------------------------------- MODULE MCWire -------------------------------
(* Wire for TLC: two digits to base 4 for lengths and ids.                 *)
EXTENDS Wire

\* a length above the limit and above the width of an id, a length below it,
\* an unknown id, an undecodable payload, a frame cut off
MCJunk == {<<3, 3>>, <<0, 1, 0>>, <<0, 2, 3, 3>>, <<1, 0, 1, 2, 0, 0>>, <<0>>}

\* bytes that look like a frame, and bytes that do not
MCTraffic == {<<0, 2, 1, 3>>, <<3>>}
=============================================================================
