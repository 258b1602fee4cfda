------------------------------ MODULE MCThrottler ------------------------------
(* The throttlers of app.module.ts, their limits scaled down, and what the *)
(* handlers of the API are decorated with.                                 *)
EXTENDS Throttler

ShortAndMedium ==
  << [name |-> "short", ttl |-> 1, limit |-> 1], [name |-> "medium", ttl |-> 2, limit |-> 2] >>

Routes == [webhook |-> {"default"}, resumes |-> {}]
===============================================================================
