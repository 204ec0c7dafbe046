------------------------------ MODULE MCServer ------------------------------
(***************************************************************************)
(* Instances of Server for TLC: one or two http URLs, or an https one, on  *)
(* a pool of one or two threads.                                           *)
(***************************************************************************)
EXTENDS Server, TLC

CONSTANTS http1, http2, https, s1, s2, t1, t2

Setup(urls, threads, clients, n) ==
  [urls |-> urls, threadsNumber |-> threads, clients |-> clients, stops |-> n]

SafetySetups ==
  {Setup({http1, http2}, 2, {s1, s2}, 0),
   Setup({http1, http2}, 0, {s1, s2}, 0),
   Setup({http1}, 0, {s1, s2}, 1),
   Setup({https}, 2, {t1, t2}, 0),
   Setup({https}, 2, {t1}, 1)}

LiveSetups ==
  {Setup({http1}, 1, {s1}, 2),
   Setup({http1, http2}, 1, {}, 1),
   Setup({http1}, 2, {s1}, 0)}

PlainSetups == {Setup({http1}, 2, {s1}, 0)}

Interchangeable ==
  Permutations({http1, http2}) \cup Permutations({s1, s2}) \cup Permutations({t1, t2})
=============================================================================
