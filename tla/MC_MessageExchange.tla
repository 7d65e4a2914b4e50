------------------------ MODULE MC_MessageExchange ------------------------
EXTENDS MessageExchange

Body(n, content, fds) == [NoArguments EXCEPT !.signature = "ay", !.length = n,
                                             !.content = content, !.fds = fds]

Call(path) == SetCall(NewMessage, path, "method")

\* What an application composes
ShortCall == SetArguments(Call("/"), Body(2, "x", <<3>>))
LongCall  == SetArguments(Call("/"), Body(7, "y", <<4, 5>>))
ASignal   == SetHeader(SetSignal(NewMessage, "/", "i", "m"), "Sender", "me")

OneWayTemplates ==
    [e \in End |-> IF e = "a" THEN {ShortCall, LongCall, ASignal} ELSE {}]

\* What another program sends
Foreigner(body) == Image(SetSerial(SetArguments(Call("/"), body), 8))

OtherOrder     == [Foreigner(Body(1, "z", <<>>)) EXCEPT !.swapped = TRUE]
NoOrder        == [Image(SetSerial(Call("/"), 8)) EXCEPT !.flaw = "endianness"]
WrongHeaders   == [Image(SetSerial(Call("/"), 8)) EXCEPT !.flaw = "variable headers"]
NoDescriptor   == [Foreigner(Body(1, "z", <<6>>)) EXCEPT !.flaw = "no descriptor"]
TooLong        == [Image(SetSerial(Call("/"), 8)) EXCEPT !.bodyLength = 20, !.flaw = "length"]

OneWayForeign ==
    [e \in End |-> IF e = "a"
                   THEN {OtherOrder, NoOrder, WrongHeaders, NoDescriptor, TooLong} ELSE {}]

OneWaySaved == [e \in End |-> IF e = "a" THEN {OtherOrder, TooLong} ELSE {}]

OneWayMax == [e \in End |-> IF e = "a" THEN 2 ELSE 1]

OtherBody == Body(1, "w", <<>>)

NewArguments == {OtherBody}

=============================================================================
