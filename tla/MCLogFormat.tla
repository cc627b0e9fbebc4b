----------------------------- MODULE MCLogFormat -----------------------------
(* All messages of up to six characters with up to three arguments: runs   *)
(* of up to six percent signs, too few and too many arguments. An argument *)
(* is a number, the empty string, a string with a percent sign, or a       *)
(* std::string with a NUL in it.                                           *)
EXTENDS LogFormat

MCArguments == {<<"number">>, <<>>, <<"x", Percent>>, <<"x", NUL, "x">>}
=============================================================================
