----------------------------- MODULE MCCollector -----------------------------
(* Instances of Collector for TLC.                                         *)
EXTENDS Collector

OneTcp     == {<<"tcp">>}
OneOrMixed == {<<"tcp">>, <<"camera">>, <<"tcp", "camera">>}
=============================================================================
