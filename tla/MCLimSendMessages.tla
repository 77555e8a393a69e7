-------------------------- MODULE MCLimSendMessages --------------------------
(* Two message wrappers: two messages can be in flight at once, so a post  *)
(* can find the pool exhausted, and two channel switches can overlap.      *)
EXTENDS LimSendMessages
MCQMax == 2
====
