----------------------------- MODULE MCProxies -----------------------------
(* One backend: the steps of a reload and the events treat every server     *)
(* by itself.                                                               *)
EXTENDS Proxies
=============================================================================
