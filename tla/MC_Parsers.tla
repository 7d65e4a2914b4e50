----------------------------- MODULE MC_Parsers -----------------------------
EXTENDS Parsers
Codes == {BYTE, ARRAY, VARIANT, PAREN, END_PAREN, BRACE, END_BRACE}
PathChars == {SLASH, 97, 95, 46}
Ports == "0" :> 0 @@ "80" :> 80 @@ "65535" :> 65535 @@ "65536" :> 65536
SomeMethods == {<<"unix", ":">>, <<"tcp", ":">>, <<"other", ":">>, <<":">>, <<"unix">>}
Pair(k, v) == <<k, "=", v>>
SomePairs ==
    {Pair(k, "a") : k \in {"path", "abstract", "dir", "tmpdir", "host", "guid", "other"}}
      \union {Pair("runtime", v) : v \in {"yes", "a"}}
      \union {Pair("family", v) : v \in {"ipv4", "ipv6", "a"}}
      \union {Pair("port", v) : v \in DOMAIN Ports}
      \union {<<>>, <<"=">>, <<"path", "=">>, <<"=", "a">>, <<"path">>, <<"path", "=", "a", "=", "a">>}
=============================================================================
