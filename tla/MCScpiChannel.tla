--------------------------- MODULE MCScpiChannel ---------------------------
(***************************************************************************)
(* Model-checking instance of ScpiChannel: the command files.               *)
(***************************************************************************)
EXTENDS ScpiChannel

\* Two commands, a command after a query, and a data request, which a file
\* sends as a query.
FileScripts == {<<"SET", "SET">>, <<"QRY", "SET">>, <<"DATA">>}

OneFile == {<<"SET", "QRY">>}
=============================================================================
