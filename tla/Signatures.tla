----------------------------- MODULE Signatures -----------------------------
(***************************************************************************)
(* Type signatures: the table of type letters, the nesting counters, the   *)
(* recursive descent parser and the validity tests of                      *)
(* src/serialization/arguments.cpp and arguments_p.h.                      *)
(*                                                                         *)
(* A string is a sequence of character codes.  A cstring that the parser   *)
(* eats from its front is the string and the index of its first remaining  *)
(* character; the code relies on the terminating NUL, which At returns     *)
(* past the end.  A failed parse returns what the code leaves behind: the  *)
(* index and the counters as they were when it gave up.                    *)
(***************************************************************************)
EXTENDS Integers, Sequences, FiniteSets

CONSTANTS ArrayMax, ParenMax, TotalMax   \* limits on nested aggregates
ASSUME NestingAssumption == ArrayMax \in Nat /\ ParenMax \in Nat /\ TotalMax \in Nat

(* The letters of the type system, as character codes. *)
ARRAY == 97
BOOLEAN_ == 98
SIGNATURE == 103
UNIX_FD == 104
INT16 == 110
STRING_ == 115
UINT64 == 116
UINT32 == 117
VARIANT == 118
BYTE == 121
PAREN == 40
END_PAREN == 41
BRACE == 123
END_BRACE == 125

Primitives == {BOOLEAN_, UNIX_FD, INT16, UINT64, UINT32, BYTE}
Strings == {SIGNATURE, STRING_}
BasicTypes == Primitives \union Strings

(* The alignment of a type, which is also the size of a primitive. *)
Alignment(c) ==
    CASE c \in {UINT64, PAREN, BRACE} -> 8
      [] c \in {ARRAY, BOOLEAN_, UNIX_FD, STRING_, UINT32} -> 4
      [] c = INT16 -> 2
      [] OTHER -> 1

AlignUp(n, to) == ((n + to - 1) \div to) * to
IsAligned(n, to) == n % to = 0

(***************************************************************************)
(* Nesting: a begin function counts up even when it then reports failure.  *)
(***************************************************************************)
NoNesting == [array |-> 0, paren |-> 0, variant |-> 0]
Total(n) == n.array + n.paren + n.variant
Up(n, k) == [n EXCEPT ![k] = @ + 1]
Down(n, k) == [n EXCEPT ![k] = @ - 1]
WithinLimits(n, k) ==
    /\ k = "array" => n.array <= ArrayMax
    /\ k = "paren" => n.paren <= ParenMax
    /\ Total(n) <= TotalMax

(***************************************************************************)
(* The parser.                                                             *)
(***************************************************************************)
At(s, i) == IF i \in DOMAIN s THEN s[i] ELSE 0
Parsed(ok, i, nest) == [ok |-> ok, at |-> i, nest |-> nest]

RECURSIVE ParseSingleCompleteType(_, _, _)
RECURSIVE ParseMembers(_, _, _, _)

(* The loop over the members of a struct: it ends at whatever cannot be    *)
(* parsed, and looks for the closing parenthesis where that failure left   *)
(* the string.                                                             *)
ParseMembers(s, i, nest, isEmptyStruct) ==
    LET member == ParseSingleCompleteType(s, i, nest)
    IN  IF member.ok THEN ParseMembers(s, member.at, member.nest, FALSE)
        ELSE IF At(s, member.at) = END_PAREN /\ ~isEmptyStruct
        THEN Parsed(TRUE, member.at + 1, Down(member.nest, "paren"))
        ELSE member

\* There must be four characters left, "{yy}"; the mutant wants one more.
IsDictPossible_Longer(s, i) == Len(s) - i + 1 > 4
IsDictPossible(s, i) == Len(s) - i + 1 >= 4

ParseDictEntry(s, i, nest) ==
    LET inside == Up(nest, "paren")
        value  == ParseSingleCompleteType(s, i + 2, inside)
    IN  IF ~WithinLimits(inside, "paren") \/ ~IsDictPossible(s, i)
        THEN Parsed(FALSE, i, inside)
        ELSE IF At(s, i + 1) \notin BasicTypes THEN Parsed(FALSE, i + 1, inside)
        ELSE IF value.ok /\ At(s, value.at) = END_BRACE
        THEN Parsed(TRUE, value.at + 1, Down(value.nest, "paren"))
        ELSE [value EXCEPT !.ok = FALSE]

ParseSingleCompleteType(s, i, nest) ==
    LET c == At(s, i) IN
    CASE c \in BasicTypes -> Parsed(TRUE, i + 1, nest)
      [] c = VARIANT ->
            IF WithinLimits(Up(nest, "variant"), "variant") THEN Parsed(TRUE, i + 1, nest)
            ELSE Parsed(FALSE, i, Up(nest, "variant"))
      [] c = PAREN ->
            LET inside == Up(nest, "paren")
            IN  IF WithinLimits(inside, "paren") THEN ParseMembers(s, i + 1, inside, TRUE)
                ELSE Parsed(FALSE, i, inside)
      [] c = ARRAY ->
            LET inside  == Up(nest, "array")
                content == IF At(s, i + 1) = BRACE THEN ParseDictEntry(s, i + 1, inside)
                           ELSE ParseSingleCompleteType(s, i + 1, inside)
            IN  IF ~WithinLimits(inside, "array") THEN Parsed(FALSE, i, inside)
                ELSE IF content.ok THEN [content EXCEPT !.nest = Down(@, "array")]
                ELSE content
      [] OTHER -> Parsed(FALSE, i, nest)

(* isSignatureValid for a method signature: single complete types to the   *)
(* end.  The counters are carried from one type to the next.               *)
RECURSIVE ParseAll(_, _, _)
ParseAll(s, i, nest) ==
    LET type == ParseSingleCompleteType(s, i, nest)
    IN  IF i > Len(s) THEN Parsed(TRUE, i, nest)
        ELSE IF type.ok THEN ParseAll(s, type.at, type.nest) ELSE type

IsSignatureValid(s) == ParseAll(s, 1, NoNesting).ok

IsVariantSignatureValid(s) ==
    LET type == ParseSingleCompleteType(s, 1, NoNesting)
    IN  s # <<>> /\ type.ok /\ type.at = Len(s) + 1

(***************************************************************************)
(* Object paths.                                                           *)
(***************************************************************************)
SLASH == 47
IsObjectNameLetter(c) == c \in (97..122) \union (65..90) \union (48..57) \union {95}

(* isObjectPathValid compares each character with the one before it; the   *)
(* mutant forgets to.                                                      *)
MayFollow_Always(c, previous) == IsObjectNameLetter(c) \/ c = SLASH
MayFollow(c, previous) == IsObjectNameLetter(c) \/ (c = SLASH /\ previous # SLASH)

IsObjectPathValid(path) ==
    /\ path # <<>>
    /\ path[1] = SLASH
    /\ \/ Len(path) = 1
       \/ /\ \A i \in 2..Len(path) : MayFollow(path[i], path[i - 1])
          /\ path[Len(path)] # SLASH
=============================================================================
