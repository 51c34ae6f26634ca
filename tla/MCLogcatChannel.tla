--------------------------- MODULE MCLogcatChannel ---------------------------
EXTENDS LogcatChannel

(* Every kind of line but a plain entry, and the pairs in which the second *)
(* line is handled by what the first one was.                              *)
ShortLogs ==
    {<<"startProc", "byPid">>, <<"byPid", "cause">>, <<"cont", "crash">>,
     <<"wide", "blank">>, <<"long">>}

CrashLog == {<<"entry", "crash">>}
==============================================================================
