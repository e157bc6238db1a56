---------------------------- MODULE RateLimiterMC ----------------------------
(* Two requests at a time, at one instance: instances share nothing but the *)
(* counters in Redis, where a request of another instance is one more       *)
(* request.                                                                 *)
EXTENDS RateLimiter, TLC

CONSTANTS i1, r1, r2, k1, k2

MCInstance == {i1}
MCRequest == {r1, r2}
MCInstanceOf == r1 :> i1 @@ r2 :> i1
MCKey == {k1, k2}
MCObserved == {<<"redis", k1>>, <<i1, k1>>}
=============================================================================
