------------------------------ MODULE MCFactories ------------------------------
(* Instances of the factories for TLC.                                       *)
EXTENDS Factories

(* Two cw20 tokens, a token of a token factory, and a name of three parts.   *)
MCFormOf == <<"cw20", "cw20", "factory", "path">>
=============================================================================
