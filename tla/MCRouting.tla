----------------------------- MODULE MCRouting -----------------------------
(***************************************************************************)
(* Routing.tla for TLC: a host below a listed domain, itself an exception; *)
(* one in proxy_skip, in a comment only; one that ends a longer rule.      *)
(***************************************************************************)
EXTENDS Routing

MCHost == {<<"www", "google", "com">>, <<"baidu", "com">>, <<"qq", "com">>}
MCLine == {[kind |-> "rule", labels |-> <<"google", "com">>],
           [kind |-> "rule", labels |-> <<"xqq", "com">>],
           [kind |-> "exception", labels |-> <<"www", "google", "com">>],
           [kind |-> "comment", labels |-> <<"baidu", "com">>]}
MCEndsWith == {<<"xqq", "qq">>}
MCSkipped == {<<"baidu", "com">>}
=============================================================================
