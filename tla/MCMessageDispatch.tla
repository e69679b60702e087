------------------------- MODULE MCMessageDispatch -------------------------
EXTENDS MessageDispatch

\* An endpoint alone, one middleware before it, and chains in which the body is
\* parsed and validated, in the right order, in the wrong one, and twice.
MCChains ==
  {<<>>} \cup {<<m>> : m \in {"ok", "empty", "other", "json", "RequestError"}}
         \cup {<<m, "ok">> : m \in {"pass", "forget", "UnauthorizedError"}}
         \cup {<<m, "Error">> : m \in {"rescue", "beside"}}
         \cup {<<"json", "schema", "ok">>, <<"json", "json", "ok">>,
               <<"schema", "json", "ok">>, <<"twice", "json", "ok">>}
=============================================================================
