------------------------------ MODULE MCProxy ------------------------------
(***************************************************************************)
(* Instances of Proxy for TLC.                                             *)
(***************************************************************************)
EXTENDS Proxy, TLC

CONSTANTS w1, w2, c1, c2, c3, b1, b2, b3, b4, small, other, large, mute

TwoWorkers == {w1, w2}
ThreeConns == {c1, c2, c3}

\* An item has at least one unit, so at most MaxSize buffers are cached, and
\* each worker fills at most one more.
ThreeBuffers == {b1, b2, b3}
FourBuffers == {b1, b2, b3, b4}

\* Two URIs with cacheable responses and one whose response takes two chunks, the
\* origins of two of which may close too early; one on an origin that accepts
\* connections and never answers.
CacheKeys == {small, other, large}
MuteKeys == {small, mute}
CacheChunks == [k \in CacheKeys |-> IF k = large THEN 2 ELSE 1]
MuteChunks == [k \in MuteKeys |-> 1]
CacheSize == [k \in CacheKeys |-> IF k = other THEN 2 ELSE 1]
MuteSize == [k \in MuteKeys |-> 1]
NoKeys == {}
OnlyMute == {mute}
CutShort == {other, large}

Req(l, k, h) == [line |-> l, key |-> k, headers |-> h]

\* Requests for each URI, and every way a request can end.
GoodRequests == {Req("ok", k, "ok") : k \in CacheKeys}
BadRequests ==
  {Req("ok", small, h) : h \in Headers \ {"ok"}}
    \cup {Req(l, small, "ok") : l \in Lines \ {"ok", "empty"}}
    \cup {Req("empty", small, "unterminated")}

\* At most one client sends a bad request.
OneBad ==
  {r \in [Conns -> GoodRequests \cup BadRequests] :
     Cardinality({c \in Conns : r[c] \in BadRequests}) <= 1}

\* Requests to an origin that answers and to one that does not.
MuteScenarios == [Conns -> {Req("ok", k, "ok") : k \in MuteKeys}]

Symmetry ==
  Permutations(Workers) \cup Permutations(Conns) \cup Permutations(Buffers)
=============================================================================
