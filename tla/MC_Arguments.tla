---------------------------- MODULE MC_Arguments ----------------------------
EXTENDS ArgumentsTransfer
Script(calls, max) == [calls |-> calls, max |-> max]
\* Seven bytes and a variant: a signature longer than LargestChar = 7, with a
\* call left after the variant is closed.
LongScripts == { Script({"byte", "variant"}, 11) }
SomeScripts == LongScripts \union {
    Script({"byte", "uint64", "array", "empty", "variant"}, 7),
    Script({"byte", "string", "dict", "variant", "empty"}, 6),
    Script({"string", "byte", "dict"}, 7),
    Script({"uint64", "struct", "array", "variant"}, 7),
    Script({"struct", "array", "empty", "byte array"}, 5),
    Script({"byte", "variant", "array", "empty", "uint64 array"}, 5),
    Script({"fd", "signature", "int16", "boolean", "uint32", "array", "empty"}, 4) }
=============================================================================
