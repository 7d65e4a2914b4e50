---------------------------- MODULE ConnectAddress ----------------------------
(***************************************************************************)
(* Server addresses: ConnectAddress::setAddressFromString and toString     *)
(* (src/connection/connectaddress.cpp).                                    *)
(*                                                                         *)
(* An address string is a sequence of tokens: the separators the parser    *)
(* searches for, and names and values between them.  Searching, cutting    *)
(* and comparing work on tokens as the code's do on characters.            *)
(***************************************************************************)
EXTENDS Integers, Sequences, FiniteSets

CONSTANT PortNumber      \* the tokens that convert to a number, and theirs
ASSUME PortAssumption == \A t \in DOMAIN PortNumber : PortNumber[t] \in Int

NoAddress == [type |-> "None", path |-> <<>>, port |-> -1, guid |-> <<>>]
TcpTypes == {"Tcp", "Tcp4", "Tcp6"}

\* std::string::find: the first position of token at or after from, or none.
Find(s, token, from) ==
    LET at == {i \in from..Len(s) : s[i] = token}
    IN  IF at = {} THEN Len(s) + 1 ELSE CHOOSE i \in at : \A j \in at : i <= j

PathType == [path |-> "UnixPath", abstract |-> "AbstractUnixPath", dir |-> "UnixDir",
             tmpdir |-> "TmpDir", runtime |-> "RuntimeDir"]

ClaimKey(key) == IF key \in DOMAIN PathType THEN "path" ELSE key

SetPath(a, key, value) ==
    [a EXCEPT !.ok = a.type = "UnixPath" /\ (key = "runtime" => value = <<"yes">>),
              !.type = PathType[key],
              !.path = IF key = "runtime" THEN <<>> ELSE value]
SetPort(a, value) ==
    LET number == IF Len(value) = 1 /\ value[1] \in DOMAIN PortNumber
                  THEN PortNumber[value[1]] ELSE 0
    IN  [a EXCEPT !.ok = a.type \in TcpTypes /\ number >= 1 /\ number <= 65535, !.port = number]
SetFamily(a, value) ==
    [a EXCEPT !.ok = a.type = "Tcp" /\ value \in {<<"ipv4">>, <<"ipv6">>},
              !.type = IF value = <<"ipv4">> THEN "Tcp4" ELSE "Tcp6"]

(* One key=value pair: the body of the loop after the substrings are cut.  *)
SetKey(a, name, value) ==
    LET key == IF Len(name) = 1 THEN name[1] ELSE "no key"
        now == [a EXCEPT !.claimed = @ \union {ClaimKey(key)}]
    IN  CASE ClaimKey(key) \in a.claimed -> [a EXCEPT !.ok = FALSE]
          [] key \in DOMAIN PathType -> SetPath(now, key, value)
          [] key = "host" -> [now EXCEPT !.ok = a.type \in TcpTypes]
          [] key = "port" -> SetPort(now, value)
          [] key = "family" -> SetFamily(now, value)
          [] key = "guid" -> [now EXCEPT !.guid = value]
          [] OTHER -> [a EXCEPT !.ok = FALSE]

RECURSIVE ParseKeys(_, _, _)
ParseKeys(a, s, keyStart) ==
    LET valueEnd   == Find(s, ",", keyStart)
        keyEnd     == Find(s, "=", keyStart)
        valueStart == keyEnd + 1
        next       == SetKey(a, SubSeq(s, keyStart, keyEnd - 1), SubSeq(s, valueStart, valueEnd - 1))
    IN  IF ~a.ok \/ keyStart > Len(s) THEN a
        ELSE IF keyEnd > Len(s) \/ keyEnd = keyStart \/ valueStart >= valueEnd
        THEN [a EXCEPT !.ok = FALSE]
        ELSE ParseKeys(next, s, valueEnd + 1)

\* The last checks: a path that is not empty, or a host (its name is not kept).
HasTarget(a) ==
    /\ a.type \in {"UnixPath", "AbstractUnixPath"} => a.path # <<>>
    /\ a.type \in TcpTypes => "host" \in a.claimed

SetAddressFromString(s) ==
    LET kvListStart == Find(s, ":", 1)
        method == SubSeq(s, 1, kvListStart - 1)
        start  == [type |-> IF method = <<"tcp">> THEN "Tcp" ELSE "UnixPath",
                   path |-> <<>>, port |-> -1, guid |-> <<>>, claimed |-> {},
                   ok |-> kvListStart <= Len(s)
                          /\ method \in {<<"unix">>, <<"unixexec">>, <<"tcp">>}]
        end == ParseKeys(start, s, kvListStart + 1)
    IN  [end EXCEPT !.ok = @ /\ HasTarget(end)]

AddressOf(parsed) == [f \in DOMAIN NoAddress |-> parsed[f]]

(* operator==, for two addresses of the same role. *)
SameAddress(a, b) ==
    /\ a.type = b.type /\ a.guid = b.guid
    /\ IF a.type \in TcpTypes THEN a.port = b.port ELSE a.path = b.path

Digits(port) == IF port = -1 THEN "-1" ELSE CHOOSE t \in DOMAIN PortNumber : PortNumber[t] = port

PrintedFamily(type) ==
    CASE type = "Tcp4" -> <<",", "family", "=", "ipv4">>
      [] type = "Tcp6" -> <<",", "family", "=", "ipv6">>
      [] OTHER -> <<>>

AddressString(a) ==
    LET pathKey == CHOOSE k \in DOMAIN PathType : PathType[k] = a.type
        target  == IF a.type \in TcpTypes
                   THEN <<"tcp", ":", "host", "=", "localhost">> \o PrintedFamily(a.type)
                        \o <<",", "port", "=", Digits(a.port)>>
                   ELSE <<"unix", ":", pathKey, "=">>
                        \o (IF a.type = "RuntimeDir" THEN <<"yes">> ELSE a.path)
    IN  IF a.type = "None" THEN <<>>
        ELSE target \o (IF a.guid = <<>> THEN <<>> ELSE <<",", "guid", "=">> \o a.guid)
=============================================================================
