-------------------------- MODULE MCRedisplayHints --------------------------
(* Values for RedisplayHints: two characters, no markers.                  *)
EXTENDS RedisplayHints
CONSTANTS a, b
TwoChars == {a, b}
NoMarkers == {}
\* What the gap holds tells no two states apart.
Text == <<TextOf(buf), buf.gpt, buf.gap, pt, begv, zv, hintVars>>
=============================================================================
