----------------------------- MODULE MCHttpApi -----------------------------
(* Two clients and every kind of request that is handled differently.      *)
EXTENDS HttpApi

CONSTANTS c1, c2

Post(path, key, body) ==
  [method |-> "POST", path |-> path, plain |-> TRUE, key |-> key, body |-> body]
Get(path, plain) ==
  [method |-> "GET", path |-> path, plain |-> plain, key |-> "wrong", body |-> "fine"]

Probe == Get("health", TRUE)

\* Work or something odd, then a probe, a scrape or a body that raises, then a
\* probe.
MCOffers ==
  << {Post("explain", "right", "no KB"), Post("check_kb", "wrong", "fine"),
      Post("check_kb", "garbled", "fine"), Post("diagnose", "right", "blank"),
      [Post("elsewhere", "right", "fine") EXCEPT !.method = "PUT"],
      Get("health", FALSE)},
     {Probe, Get("metrics", TRUE), Post("diagnose", "right", "stumbles")},
     {Probe} >>

\* An explain takes longer than any bucket.
MCTook == [p \in Paths |-> IF p = "explain" THEN 3 ELSE IF p \in Tools THEN 2 ELSE 1]
============================================================================
