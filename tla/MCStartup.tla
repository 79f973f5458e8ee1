----------------------------- MODULE MCStartup -----------------------------
(* Values and a view for the run of Startup. *)
EXTENDS Startup

MCNumbers == {-1, 0, 255, 256}

\* What main reads again, and what the invariants do: not the arguments once
\* they are parsed, nor the text and the field db once they are loaded.
StillRead ==
  <<pc, code, IF pc = "args" THEN <<argv, at, conf_file>> ELSE <<conf_file = "">>,
    fields.server, IF pc = "down" THEN <<fields.text, fields.db>> ELSE "read",
    items, servers, db_num, dbs, serverVars>>

============================================================================
