------------------------------- MODULE Parsers -------------------------------
(***************************************************************************)
(* The parsers of text that comes from outside, each against a definition  *)
(* of what it should accept: type signatures and object paths              *)
(* (Signatures) and server addresses (ConnectAddress).  An input grows by  *)
(* one piece at a time; the parsers are applied to every input on the way. *)
(***************************************************************************)
EXTENDS Signatures, ConnectAddress, SequencesExt

CONSTANTS SignatureCodes, MaxSignature,   \* characters of signatures, longest
          PathCodes, MaxPath,             \* the same for object paths
          Methods, Pairs, MaxPairs        \* of addresses; a pair is key = value

VARIABLES kind, text, pairs

parsersVars == <<kind, text, pairs>>

Init ==
    /\ pairs = 0
    /\ \/ kind \in {"signature", "path"} /\ text = <<>>
       \/ kind = "address" /\ text \in Methods

GrowText(what, codes, max) ==
    /\ kind = what /\ Len(text) < max
    /\ \E c \in codes : text' = Append(text, c)
    /\ UNCHANGED <<kind, pairs>>
GrowSignature == GrowText("signature", SignatureCodes, MaxSignature)
GrowPath == GrowText("path", PathCodes, MaxPath)
GrowAddress ==
    /\ kind = "address" /\ pairs < MaxPairs
    /\ \E pair \in Pairs : text' = IF pairs = 0 THEN text \o pair ELSE text \o <<",">> \o pair
    /\ pairs' = pairs + 1
    /\ UNCHANGED kind

Next == GrowSignature \/ GrowPath \/ GrowAddress
Spec == Init /\ [][Next]_parsersVars

(***************************************************************************)
(* What a signature is, by the grammar: the aggregates in a type are       *)
(* complete, structs have members, dict keys are basic.  Depth counts      *)
(* nested aggregates of each kind, a dict being an array of one struct.    *)
(***************************************************************************)
Middle(s, first, last) == SubSeq(s, first, Len(s) - last)
Splits(s) == {<<SubSeq(s, 1, n), SubSeq(s, n + 1, Len(s))>> : n \in 1..Len(s)}

RECURSIVE IsType(_, _)
RECURSIVE AreTypes(_, _)
AreTypes(s, nest) ==
    s # <<>> /\ \E p \in Splits(s) :
        IsType(p[1], nest) /\ (p[2] = <<>> \/ AreTypes(p[2], nest))
IsType(s, nest) ==
    LET inArray  == Up(nest, "array")
        inStruct == Up(nest, "paren")
        inDict   == Up(inArray, "paren")
    IN  \/ Len(s) = 1 /\ s[1] \in BasicTypes
        \/ s = <<VARIANT>> /\ Total(nest) < TotalMax
        \/ /\ Len(s) >= 3 /\ s[1] = PAREN /\ Last(s) = END_PAREN
           /\ WithinLimits(inStruct, "paren") /\ AreTypes(Middle(s, 2, 1), inStruct)
        \/ /\ Len(s) >= 2 /\ s[1] = ARRAY
           /\ WithinLimits(inArray, "array")
           /\ \/ IsType(Tail(s), inArray)
              \/ /\ Len(s) >= 5 /\ s[2] = BRACE /\ Last(s) = END_BRACE /\ s[3] \in BasicTypes
                 /\ WithinLimits(inDict, "paren") /\ IsType(Middle(s, 4, 1), inDict)

\* What is accepted with all counters of aggregates back at zero is what the
\* grammar gives, and nothing else; for a variant it must be one type exactly
\* (isSignatureValid, and its assertions that all aggregates are closed, l. 790).
\* The parser accepts more, with counters that are up: "(v()", where the ")" that
\* makes an empty struct fail as a member closes the struct around it.
GrammarIsAccepted ==
    kind = "signature" =>
        LET Balanced == ParseAll(text, 1, NoNesting).nest = NoNesting IN
        /\ text = <<>> \/ AreTypes(text, NoNesting) <=> IsSignatureValid(text) /\ Balanced
        /\ IsType(text, NoNesting) <=> IsVariantSignatureValid(text) /\ Balanced

\* An object path is "/", or names of letters, digits and '_', each after one
\* slash and none empty: what splitting the path at its slashes finds, where
\* the code compares neighbouring characters (isObjectPathValid).
PathIsNames ==
    kind = "path" =>
        LET ends    == {i \in DOMAIN text : text[i] = SLASH} \union {Len(text) + 1}
            Name(i) == {k \in DOMAIN text : k > i /\ ~\E j \in ends : i < j /\ j <= k}
        IN  IsObjectPathValid(text) <=>
              \/ text = <<SLASH>>
              \/ /\ text # <<>> /\ text[1] = SLASH
                 /\ \A i \in ends \ {Len(text) + 1} :
                       Name(i) # {} /\ \A k \in Name(i) : IsObjectNameLetter(text[k])

(***************************************************************************)
(* Addresses.                                                              *)
(***************************************************************************)
Parsed1 == SetAddressFromString(text)

\* A printed address parses to an equal one, unless it is a server's TCP
\* address without a port, for which there is no notation (toString).
AddressRoundTrip ==
    kind = "address" /\ Parsed1.ok /\ ~(Parsed1.type \in TcpTypes /\ Parsed1.port = -1) =>
        LET again == SetAddressFromString(AddressString(AddressOf(Parsed1)))
        IN  again.ok /\ SameAddress(again, Parsed1)

\* An accepted address names exactly one place to connect to or listen at:
\* one of the keys for paths, or a host; no key twice, and none that belongs
\* to the other method ("we reject any address string with duplicate *or*
\* contradictory keys", l. 463).
Count(token) == Cardinality({i \in 2..(Len(text) - 1) :
                               text[i] = token /\ text[i - 1] \in {",", ":"} /\ text[i + 1] = "="})
OnePlace ==
    kind = "address" /\ Parsed1.ok =>
        LET paths == {k \in DOMAIN PathType : Count(k) > 0}
        IN  /\ \A k \in DOMAIN PathType \union {"host", "port", "family", "guid"} : Count(k) <= 1
            /\ IF text[1] = "tcp" THEN Count("host") = 1 /\ paths = {}
               ELSE Cardinality(paths) = 1 /\ \A k \in {"host", "port", "family"} : Count(k) = 0

=============================================================================
