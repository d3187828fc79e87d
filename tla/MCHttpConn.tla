----------------------------- MODULE MCHttpConn -----------------------------
(* Small requests for HttpConn. *)
EXTENDS HttpConn

\* The last one does not fit the buffer of the instances.
MCRequests ==
  LET eol == <<"CR", "LF">>
      head(lines) == FoldLeft(LAMBDA acc, l : acc \o <<l>> \o eol, <<>>, lines) \o eol
  IN  { head(<<"R">>), head(<<"R", "H", "K">>), head(<<"B", "K">>),
        head(<<"R", "L">>) \o <<"d", "d", "d">>,
        head(<<"R", "K", "L">>) \o <<"d">>,
        head(<<"R", "L">>) \o <<"d", "LF", "d">>,
        head(<<"R", "L", "H", "H">>) \o <<"d">> }

ASSUME MCRequestsAreProper == ProperRequests
=============================================================================
