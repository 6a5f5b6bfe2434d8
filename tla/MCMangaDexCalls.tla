--------------------------- MODULE MCMangaDexCalls ---------------------------
(* MangaDexCalls with small sets, for TLC.                                 *)
EXTENDS MangaDexCalls, TLC

TwoRoutes == {<<"tags">>, <<"plain", "statistics">>}
=============================================================================
