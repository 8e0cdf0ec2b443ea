--------------------------- MODULE MCWireSession ---------------------------
(* An instance of WireSession for TLC.  Integers are shorter than in the
   code, so that they fit TLC's, and the limits so low that they are met. *)
EXTENDS WireSession, WireValue

EncodeObject(v) == EncodeWireValue(v, 0)
DecodeObject(left) == DecodeWireValue(left, 0)

ServerConfig(delta, capabilities, size) ==
    [EnableDelta |-> delta, Capabilities |-> capabilities, MaxPacketSize |-> size]
MCConfigs == {ServerConfig(TRUE, {}, 0), ServerConfig(FALSE, {"ordered"}, 500)}

(* Nothing fits 20 bytes, an error fits 30, and a welcome 40. *)
MCHellos ==
    {NoTerms, Terms(1, {"delta", "future"}, 40), Terms(0, {"ordered"}, 30),
     Terms(1, {"delta"}, 45), Terms(1, {"future"}, 0),
     Terms(1, {"ordered", "unordered"}, 400), Terms(2, {"delta"}, 20)}

A == <<97>>
B == <<98>>
Hello(token, terms) == Message("ClientHello", <<A, token, FieldsOf(terms)>>)
Plain(m) == Outgoing(m, Unreliable)

MCGameDefinitions ==
    {Definition(4096, "Chat", ChatMessageLayout, ReliableOrdered),
     Definition(4097, "Signal", << >>, Unreliable)}
MCOffered ==
    MCGameDefinitions \cup {Definition(4098, "Pong", PongLayout, Unreliable),
                            Definition(3, "Mail", ChatMessageLayout, Unreliable)}

Chat(text) == Message("Chat", <<text>>)
Signal == Message("Signal", << >>)
Request(data) == Message("ObjectRequest", <<A, B, << >>, data>>)
Input(tick) == Message("PlayerInput", <<A, <<1, tick, 0, 70000, 3>>>>)
Ping == Message("Ping", <<65537>>)

MCClientPackets ==
    {<<Plain(Hello(B, h))>> : h \in MCHellos}
        \cup {<<Plain(Hello(<< >>, NoTerms))>>,
              <<Plain(Ping), Plain(Signal)>>,
              <<Plain(Signal), Plain(Hello(<< >>, Terms(1, {"delta"}, 45)))>>,
              <<Plain(Request(<<1, 0>>)), Plain(Input(0))>>,
              <<Plain(Request(<< >>))>>,
              <<Outgoing(Chat(A), ReliableOrdered), Outgoing(Input(9), ReliableUnordered)>>,
              <<Outgoing(Signal, ReliableUnordered)>>,
              <<Plain(Chat(<<1, 2, 3>>))>>,
              <<Plain(Message("GenericClientInput", <<5, 0, A, B, << >>, B>>))>>}

(* Answers of handlers; one is of a type that nobody registers. *)
MCGameResponses ==
    {Outgoing(Message("SceneSwitchResponse", <<A>>), Unwrapped),
     Outgoing(Chat(B), Unwrapped), Outgoing(Chat(A), ReliableUnordered),
     Outgoing(Message("EntitySpawn", <<A, B, Value("int", -2)>>), ReliableOrdered)}

(* Values of every kind; the struct leaves out two of its fields, and one
   object ends in an empty string. *)
Struct == Value("struct", <<Field(B, TRUE, FALSE, Value("int", -70000)),
                            Field(<<99>>, FALSE, FALSE, Null),
                            Field(<<100>>, TRUE, TRUE, Value("uint", 0)),
                            Field(A, TRUE, FALSE, Value("float", 66000))>>)
Nested == Value("map", A :> Value("list", <<Value("bool", TRUE), Null>>))
TooDeepValue == Value("list", <<Nested>>)
MCSnapshots ==
    {Message("WorldSnapshot", <<A, 1, 0, A :> (A :> Struct @@ B :> Nested)>>),
     Message("WorldSnapshot", <<A, 2, 1, A :> (B :> TooDeepValue)>>),
     Message("WorldDeltaSnapshot",
        <<A, 3, 1, 2, B :> (A :> Value("string", << >>)), << >>, {<<A, B>>, <<A, A>>}>>),
     Message("WorldDeltaSnapshot",
        <<A, 3, 1, 2, << >>, B :> (A :> Value("string", << >>)), {}>>)}

(* What the theorems about the session suppose of the codec of values, for
   no bytes and for a few that might be taken for more of a value. *)
ASSUME MCTreesReadBack == AnswersReadBefore({<< >>, <<0>>, <<0, 1>>, <<7, 255, 0, 0, 0, 1>>})
=============================================================================
