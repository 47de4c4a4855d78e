--------------------------- MODULE MCServerConfig ---------------------------
(* A line with every value of up to two characters, in quotes; or up to two *)
(* lines with plain values.                                                 *)
EXTENDS ServerConfig

Values == SeqOf({"a", "'", "\"", "\\", " ", "="}, 2)
Line(key, value, quote) == [key |-> key, value |-> value, quote |-> quote]
Quoted == {Line(k, v, q) : k \in {"database_name", "database_password"}, v \in Values, q \in {<<"\"">>, <<"'">>}}
Plain == {Line("database_host", <<h>>, <<>>) : h \in {"h1", "h2"}}
         \cup {Line("port", n, <<>>) : n \in {<<"65535">>, <<"65536">>, <<"-1">>, <<"text">>, <<"65535", "x">>}}
         \cup {Line("database_password", <<"p">>, <<>>), Line("unknown", <<"u">>, <<>>), Line("database_name", <<"d", "'">>, <<>>),
               Line("database_connection_string", <<"host", "=", "h3">>, <<>>)}

MCFiles == {<<l>> : l \in Quoted} \cup SeqOf(Plain, 2)

Variables(f) == CASE f = "database_host" -> {<<>>, <<"h9">>}
                  [] f = "database_port" -> {<<" ", "65535", "x">>, <<"65536">>}
                  [] f = "database_password_file" -> {<<"cc_db_password">>, <<"missing">>}
                  [] f = "database_connection_string" -> {<<"host", "=", "h8">>}
Set == {"database_host", "database_port", "database_password_file", "database_connection_string"}
MCEnvironments == UNION {{e \in [fs -> UNION {Variables(f) : f \in fs}] : \A f \in fs : e[f] \in Variables(f)} :
                           fs \in SUBSET Set}
MCPasswordFile == <<"s", "'", " ">>
=============================================================================
