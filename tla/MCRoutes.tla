------------------------------ MODULE MCRoutes ------------------------------
(* Small instances of Routes for TLC: nested, parametric and socket        *)
(* directories, two siblings of which one's name begins the other's, and   *)
(* a name with a dot.                                                      *)
EXTENDS Routes

MCDir == {<<>>, <<"user">>, <<"users">>, <<"users", "me">>,
          <<"users", ":id">>, <<"ws">>, <<"ws", ":clientId">>,
          <<"ws", "post.old">>}

MCPlainDir == MCDir \ {<<"ws", "post.old">>}

MCNamePrefixes == {<<"user", "users">>}

MCStem == [name \in {"post.old"} |-> "POST"]

MCMountPath == <<"v1">>
=============================================================================
