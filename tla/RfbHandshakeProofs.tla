------------------------- MODULE RfbHandshakeProofs -------------------------
(***************************************************************************)
(* Proofs about the opening of connections, for any number of clients, any *)
(* minor versions and any number of requests under way: neither side takes *)
(* a message for another one, and they do not wait for each other.         *)
(***************************************************************************)
EXTENDS RfbHandshake, TLAPS

\* What a client may have under way to a server in the state that it is in.
Script(c) ==
  CASE state[c] = "RFB_PROTOCOL_VERSION" -> {<<>>, <<"version">>, <<"garbage">>}
    [] state[c] = "RFB_SECURITY_TYPE" ->
         {<<>>, <<"otherType">>,
          IF minor[c] = 7 THEN <<"none", "clientInit">> ELSE <<"none">>}
    [] state[c] = "RFB_INITIALISATION" -> {<<>>, <<"clientInit">>}
    [] OTHER -> Seq({"request"})

\* What the server reads next is what it expects, also from a client that has
\* left meanwhile.
Readable(c) ==
  Served(c) =>
    /\ toServer[c] \in Script(c)
    /\ state[c] = "RFB_SECURITY_TYPE" => minor[c] >= 7 /\ "none" \in securityHandlers

\* What is under way to a client is what it waits for, also from a server that
\* has closed the connection.
Receivable(c) ==
  awaits[c] # "left" =>
    toClient[c] = <<>> \/ (awaits[c] \in ServerMessages /\ toClient[c] = <<awaits[c]>>)

\* It is the client's turn: the server has sent what the client waits for.
ClientsTurn(c) ==
  /\ toClient[c] = <<awaits[c]>> /\ toServer[c] = <<>>
  /\ \/ state[c] = "RFB_PROTOCOL_VERSION" /\ awaits[c] = "version"
     \/ state[c] = "RFB_SECURITY_TYPE" /\ awaits[c] = "list"
     \/ state[c] = "RFB_INITIALISATION" /\ awaits[c] = "type" /\ minor[c] < 7
     \/ state[c] = "RFB_INITIALISATION" /\ awaits[c] = "result" /\ minor[c] > 7 /\ ~Mac(c)
     \/ state[c] = "RFB_NORMAL" /\ awaits[c] = "serverInit"

\* It is the server's turn: it has not read what the client sent.
ServersTurn(c) ==
  /\ toClient[c] = <<>> /\ toServer[c] # <<>>
  /\ \/ state[c] = "RFB_PROTOCOL_VERSION" /\ awaits[c] = ThenAwaits(c, "version")
     \/ state[c] = "RFB_SECURITY_TYPE" /\ awaits[c] = ThenAwaits(c, "list")
     \/ state[c] = "RFB_INITIALISATION" /\ awaits[c] = "serverInit"

Up(c) == toClient[c] = <<>> /\ state[c] = "RFB_NORMAL" /\ awaits[c] = "nothing"

Turn(c) ==
  Served(c) /\ awaits[c] # "left" => ClientsTurn(c) \/ ServersTurn(c) \/ Up(c)

Good(c) ==
  /\ state[c] # "confused" /\ awaits[c] # "confused"
  /\ Readable(c) /\ Receivable(c) /\ Turn(c)

\* rfbReadExact waits for a client that is served.
ReadingServed == reading # NoClient => Served(reading)

IInv == TypeOK /\ ReadingServed /\ \A c \in Clients : Good(c)

-----------------------------------------------------------------------------
(***************************************************************************)
(* Short sequences                                                         *)
(***************************************************************************)

\* Head, Tail and concatenation of sequences of one or two messages.
LEMMA Short ==
  /\ \A x : Head(<<x>>) = x /\ Tail(<<x>>) = <<>> /\ <<x>> # <<>>
  /\ \A x, y : Head(<<x, y>>) = x /\ Tail(<<x, y>>) = <<y>> /\ <<x, y>> # <<>>
  /\ \A x : <<>> \o <<x>> = <<x>>
  /\ \A x, y : <<>> \o <<x, y>> = <<x, y>>
<1>1. \A x : Head(<<x>>) = x /\ Tail(<<x>>) = <<>> /\ <<x>> # <<>>
  OBVIOUS
<1>2. \A x, y : Head(<<x, y>>) = x /\ Tail(<<x, y>>) = <<y>> /\ <<x, y>> # <<>>
  OBVIOUS
<1>3. \A x : <<>> \o <<x>> = <<x>>
  OBVIOUS
<1>4. \A x, y : <<>> \o <<x, y>> = <<x, y>>
  OBVIOUS
<1>5. QED BY <1>1, <1>2, <1>3, <1>4

\* Concatenation keeps the elements, and the empty sequence adds none.
LEMMA Joined ==
  ASSUME NEW S, NEW s \in Seq(S), NEW t \in Seq(S)
  PROVE  s \o t \in Seq(S) /\ s \o <<>> = s
OBVIOUS

\* What is taken from a sequence, and what is left of it.
LEMMA Rest ==
  ASSUME NEW S, NEW s \in Seq(S), s # <<>>
  PROVE  Head(s) \in S /\ Tail(s) \in Seq(S)
OBVIOUS

-----------------------------------------------------------------------------
(***************************************************************************)
(* The invariant                                                           *)
(***************************************************************************)

\* A step for client c leaves the others as they are.
OnlyFor(c) ==
  \A d \in Clients \ {c} :
    /\ state'[d] = state[d] /\ toServer'[d] = toServer[d] /\ toClient'[d] = toClient[d]
    /\ minor'[d] = minor[d] /\ awaits'[d] = awaits[d]

\* A step for one client leaves the others as they are; security handlers are
\* only ever added.
LEMMA Others ==
  ASSUME IInv, NEW c \in Clients, OnlyFor(c), securityHandlers \subseteq securityHandlers',
         TypeOK', ReadingServed', Good(c)'
  PROVE  IInv'
<1>1. ASSUME NEW d \in Clients, d # c PROVE Good(d)'
  <2>1. Good(d)
    BY DEF IInv
  <2>2. /\ state'[d] = state[d] /\ toServer'[d] = toServer[d] /\ toClient'[d] = toClient[d]
        /\ minor'[d] = minor[d] /\ awaits'[d] = awaits[d]
    BY <1>1 DEF OnlyFor
  <2>3. Readable(d)'
    <3>1. Readable(d)
      BY <2>1 DEF Good
    <3>2. Served(d)' = Served(d) /\ Script(d)' = Script(d)
      BY <2>2 DEF Served, Script
    <3>3. QED BY <2>2, <3>1, <3>2 DEF Readable
  <2>4. Receivable(d)'
    BY <2>1, <2>2 DEF Good, Receivable
  <2>5. Turn(d)'
    BY <2>1, <2>2 DEF Good, Turn, Served, ClientsTurn, ServersTurn, Up, Mac, ThenAwaits
  <2>6. QED BY <2>1, <2>2, <2>3, <2>4, <2>5 DEF Good
<1>2. QED BY <1>1 DEF IInv

\* Nobody is connected at first.
LEMMA InitInv == Init => IInv
<1> SUFFICES ASSUME Init PROVE IInv
  OBVIOUS
<1> USE DEF Init
<1>1. TypeOK
  BY DEF TypeOK, States, ServerMessages, ClientMessages
<1>2. ReadingServed
  BY DEF ReadingServed
<1>3. ASSUME NEW c \in Clients PROVE Good(c)
  BY DEF Good, Readable, Script, Receivable, Turn, ClientsTurn, ServerMessages
<1>4. QED BY <1>1, <1>2, <1>3 DEF IInv

\* The client is closed.
LEMMA Closing ==
  ASSUME IInv, NEW c \in Clients, state' = [state EXCEPT ![c] = "CLOSED"],
         UNCHANGED <<toClient, minor, awaits, late>>, toServer' \in [Clients -> Seq(ClientMessages)],
         \A d \in Clients \ {c} : toServer'[d] = toServer[d],
         securityHandlers \subseteq securityHandlers', securityHandlers' \subseteq {"none"},
         reading' = NoClient
  PROVE  IInv'
<1>1. TypeOK'
  BY DEF IInv, TypeOK, States
<1>2. state'[c] = "CLOSED" /\ \A d \in Clients \ {c} : state'[d] = state[d]
  BY DEF IInv, TypeOK
<1>3. OnlyFor(c)
  BY <1>2 DEF OnlyFor
<1>4. ReadingServed'
  BY DEF ReadingServed
<1>5. Good(c)'
  <2>1. Good(c) /\ ~Served(c)'
    BY <1>2 DEF IInv, Served
  <2>2. Receivable(c)'
    BY <2>1 DEF Good, Receivable
  <2>3. QED BY <1>2, <2>1, <2>2 DEF Good, Readable, Turn
<1>6. QED BY <1>1, <1>3, <1>4, <1>5, Others

\* The client goes to state s and gets the messages ms.
LEMMA Replying ==
  ASSUME IInv, NEW c \in Clients, NEW s \in States \ {"CLOSED", "confused"},
         NEW ms \in Seq(ServerMessages), state' = [state EXCEPT ![c] = s],
         toClient' = [toClient EXCEPT ![c] = @ \o ms],
         UNCHANGED <<minor, awaits, late>>,
         toServer' = [toServer EXCEPT ![c] = Tail(@)], toServer[c] # <<>>,
         securityHandlers \subseteq securityHandlers', securityHandlers' \subseteq {"none"},
         reading' = NoClient, Readable(c)',
         awaits[c] # "left" /\ toClient[c] = <<>> /\ toClient'[c] = ms =>
           Receivable(c)' /\ Turn(c)',
         Served(c)
  PROVE  IInv'
<1>0. toServer[c] \in Seq(ClientMessages) /\ toClient[c] \in Seq(ServerMessages) /\ TypeOK
  BY DEF IInv, TypeOK
<1>1. Tail(toServer[c]) \in Seq(ClientMessages) /\ toClient[c] \o ms \in Seq(ServerMessages)
  BY <1>0, Rest, Joined
<1>2. TypeOK'
  <2>1. toServer' \in [Clients -> Seq(ClientMessages)] /\ toClient' \in [Clients -> Seq(ServerMessages)]
    BY <1>0, <1>1 DEF TypeOK
  <2>2. QED BY <1>0, <2>1 DEF TypeOK
<1>3. /\ state'[c] = s /\ toClient'[c] = toClient[c] \o ms
      /\ \A d \in Clients \ {c} : state'[d] = state[d] /\ toServer'[d] = toServer[d]
                                    /\ toClient'[d] = toClient[d]
  BY <1>0 DEF TypeOK
<1>4. OnlyFor(c)
  BY <1>3 DEF OnlyFor
<1>5. ReadingServed'
  BY DEF ReadingServed
<1>6. Good(c)
  BY DEF IInv
<1>7. awaits[c] # "left" => toClient[c] = <<>>
  BY <1>6 DEF Good, Turn, ClientsTurn, ServersTurn, Up
<1>8. <<>> \o ms = ms
  OBVIOUS
<1>9. Receivable(c)' /\ Turn(c)'
  <2>1. CASE awaits[c] = "left"
    BY <2>1 DEF Receivable, Turn
  <2>2. CASE awaits[c] # "left"
    BY <1>3, <1>7, <1>8, <2>2
  <2>3. QED BY <2>1, <2>2
<1>10. Good(c)'
  BY <1>3, <1>6, <1>9 DEF Good
<1>11. QED BY <1>2, <1>4, <1>5, <1>10, Others

\* rfbProcessClientMessage, one step per state of the client.
LEMMA ProcessInv ==
  ASSUME IInv, NEW c \in Clients, Served(c), toServer[c] # <<>>, rfbProcessClientMessage(c)
  PROVE  IInv'
<1> DEFINE m == Head(toServer[c])
<1>1. /\ toServer' = [toServer EXCEPT ![c] = Tail(@)] /\ reading' = NoClient
      /\ UNCHANGED <<late, minor, awaits>>
  BY DEF rfbProcessClientMessage
<1>2. TypeOK /\ Good(c)
  BY DEF IInv
<1>3. /\ toServer[c] \in Seq(ClientMessages) /\ toServer'[c] = Tail(toServer[c])
      /\ toClient[c] \in Seq(ServerMessages) /\ minor[c] \in Nat
      /\ toServer' \in [Clients -> Seq(ClientMessages)]
      /\ \A d \in Clients \ {c} : toServer'[d] = toServer[d]
  <2>1. toServer[c] \in Seq(ClientMessages) /\ toClient[c] \in Seq(ServerMessages)
    BY <1>2 DEF TypeOK
  <2>2. Tail(toServer[c]) \in Seq(ClientMessages)
    BY <2>1, Rest
  <2>3. minor[c] \in Nat
    BY <1>2, MinorsAssumption DEF TypeOK
  <2>4. QED BY <1>1, <1>2, <2>1, <2>2, <2>3 DEF TypeOK
<1>4. awaits[c] # "left" => ServersTurn(c) \/ Up(c)
  BY <1>2 DEF Good, Turn, ClientsTurn
<1>5. toServer[c] \in Script(c)
  BY <1>2 DEF Good, Readable
<1> HIDE DEF m
<1>6. ASSUME NEW s \in States \ {"CLOSED", "confused"}, NEW ms \in Seq(ServerMessages),
             Reply(c, s, ms),
             securityHandlers \subseteq securityHandlers', securityHandlers' \subseteq {"none"},
             state'[c] = s => Readable(c)',
             state'[c] = s /\ awaits[c] # "left" /\ toClient[c] = <<>> /\ toClient'[c] = ms =>
               Receivable(c)' /\ Turn(c)'
      PROVE  IInv'
  <2>1. CASE state' = [state EXCEPT ![c] = s] /\ toClient' = [toClient EXCEPT ![c] = @ \o ms]
    <3>1. state'[c] = s
      BY <1>2, <2>1 DEF TypeOK
    <3>2. QED BY <1>1, <1>6, <2>1, <3>1, Replying
  <2>2. CASE state' = [state EXCEPT ![c] = "CLOSED"] /\ UNCHANGED toClient
    BY <1>1, <1>3, <1>6, <2>2, Closing
  <2>3. QED BY <1>6, <2>1, <2>2 DEF Reply
<1>7. ASSUME Reply(c, "CLOSED", <<>>), UNCHANGED securityHandlers
      PROVE  IInv'
  <2>1. toClient[c] \o <<>> = toClient[c]
    BY <1>3, Joined
  <2>2. state' = [state EXCEPT ![c] = "CLOSED"] /\ UNCHANGED toClient
    BY <1>2, <1>7, <2>1 DEF Reply, TypeOK
  <2>3. securityHandlers' \subseteq {"none"}
    BY <1>2, <1>7 DEF TypeOK
  <2>4. QED BY <1>1, <1>3, <1>7, <2>2, <2>3, Closing
<1>8. /\ \A x \in ServerMessages : <<x>> \in Seq(ServerMessages)
      /\ <<>> \in Seq(ServerMessages) /\ <<>> \in Seq({"request"})
  OBVIOUS
<1>9. CASE state[c] = "RFB_PROTOCOL_VERSION"
  <2>1. rfbProcessClientProtocolVersion(c, m)
    BY <1>9 DEF rfbProcessClientMessage, m
  <2>2. m \in {"version", "garbage"} /\ toServer'[c] = <<>>
    BY <1>3, <1>5, <1>9, Short DEF Script, m
  <2>3. awaits[c] # "left" => awaits[c] = ThenAwaits(c, "version")
    BY <1>4, <1>9 DEF ServersTurn, Up
  <2>4. CASE m = "version" /\ minor[c] < 7
    <3>1. Reply(c, "RFB_INITIALISATION", <<"type">>) /\ UNCHANGED securityHandlers
      BY <1>3, <2>1, <2>4 DEF rfbProcessClientProtocolVersion
    <3>2. state'[c] = "RFB_INITIALISATION" => Readable(c)'
      BY <2>2 DEF Readable, Script
    <3>3. state'[c] = "RFB_INITIALISATION" /\ awaits[c] # "left" /\ toClient'[c] = <<"type">> =>
            Receivable(c)' /\ Turn(c)'
      <4>1. awaits[c] # "left" => awaits'[c] = "type" /\ minor'[c] < 7
        BY <1>1, <2>3, <2>4 DEF ThenAwaits
      <4>2. QED BY <2>2, <4>1 DEF Receivable, Turn, ClientsTurn, ServerMessages
    <3>4. securityHandlers' \subseteq {"none"}
      BY <1>2, <3>1 DEF TypeOK
    <3>5. "type" \in ServerMessages /\ "RFB_INITIALISATION" \in States \ {"CLOSED", "confused"}
      BY DEF ServerMessages, States
    <3>6. QED BY <1>6, <1>8, <3>1, <3>2, <3>3, <3>4, <3>5
  <2>5. CASE m = "version" /\ minor[c] >= 7
    <3>1. /\ Reply(c, "RFB_SECURITY_TYPE", <<"list">>)
          /\ securityHandlers' = securityHandlers \cup {"none"}
      BY <1>3, <2>1, <2>5 DEF rfbProcessClientProtocolVersion
    <3>2. state'[c] = "RFB_SECURITY_TYPE" => Readable(c)'
      BY <1>1, <2>2, <2>5, <3>1 DEF Readable, Script
    <3>3. state'[c] = "RFB_SECURITY_TYPE" /\ awaits[c] # "left" /\ toClient'[c] = <<"list">> =>
            Receivable(c)' /\ Turn(c)'
      <4>1. awaits[c] # "left" => awaits'[c] = "list"
        BY <1>1, <1>3, <2>3, <2>5 DEF ThenAwaits
      <4>2. CASE awaits[c] = "left"
        BY <4>2
      <4>3. CASE awaits[c] # "left"
        <5>1. SUFFICES ASSUME state'[c] = "RFB_SECURITY_TYPE", toClient'[c] = <<"list">>
                       PROVE  Receivable(c)' /\ Turn(c)'
          OBVIOUS
        <5>2. Receivable(c)'
          BY <4>1, <4>3, <5>1 DEF Receivable, ServerMessages
        <5>3. ClientsTurn(c)'
          BY <2>2, <4>1, <4>3, <5>1 DEF ClientsTurn
        <5>4. QED BY <5>2, <5>3 DEF Turn
      <4>4. QED BY <4>2, <4>3
    <3>4. securityHandlers \subseteq securityHandlers' /\ securityHandlers' \subseteq {"none"}
      BY <1>2, <3>1 DEF TypeOK
    <3>5. "list" \in ServerMessages /\ "RFB_SECURITY_TYPE" \in States \ {"CLOSED", "confused"}
      BY DEF ServerMessages, States
    <3>6. QED BY <1>6, <1>8, <3>1, <3>2, <3>3, <3>4, <3>5
  <2>6. CASE m = "garbage"
    <3>1. Reply(c, "CLOSED", <<>>) /\ UNCHANGED securityHandlers
      BY <2>1, <2>6 DEF rfbProcessClientProtocolVersion
    <3>2. QED BY <1>7, <3>1
  <2>7. QED BY <1>3, <2>2, <2>4, <2>5, <2>6
<1>10. CASE state[c] = "RFB_SECURITY_TYPE"
  <2>1. rfbProcessClientSecurityType(c, m) /\ UNCHANGED securityHandlers
    BY <1>10 DEF rfbProcessClientMessage, m
  <2>2. \/ m = "otherType" /\ toServer'[c] = <<>>
        \/ m = "none" /\ minor[c] = 7 /\ toServer'[c] = <<"clientInit">>
        \/ m = "none" /\ minor[c] # 7 /\ toServer'[c] = <<>>
    <3>1. \/ toServer[c] = <<"otherType">>
          \/ minor[c] = 7 /\ toServer[c] = <<"none", "clientInit">>
          \/ minor[c] # 7 /\ toServer[c] = <<"none">>
      BY <1>5, <1>10 DEF Script
    <3>2. CASE toServer[c] = <<"otherType">>
      BY <1>3, <3>2, Short DEF m
    <3>3. CASE minor[c] = 7 /\ toServer[c] = <<"none", "clientInit">>
      BY <1>3, <3>3, Short DEF m
    <3>4. CASE minor[c] # 7 /\ toServer[c] = <<"none">>
      BY <1>3, <3>4, Short DEF m
    <3>5. QED BY <3>1, <3>2, <3>3, <3>4
  <2>3. awaits[c] # "left" => awaits[c] = ThenAwaits(c, "list")
    BY <1>4, <1>10 DEF ServersTurn, Up
  <2>4. securityHandlers = {"none"} /\ minor[c] >= 7
    BY <1>2, <1>10 DEF TypeOK, Good, Readable, Served
  <2>5. CASE m = "otherType"
    <3>1. Reply(c, "CLOSED", <<>>)
      BY <2>1, <2>4, <2>5 DEF rfbProcessClientSecurityType
    <3>2. QED BY <1>7, <2>1, <3>1
  <2>6. CASE m = "none"
    <3>1. rfbVncAuthNone(c)
      BY <2>1, <2>4, <2>6 DEF rfbProcessClientSecurityType
    <3>2. CASE Mac(c)
      <4>1. Reply(c, "RFB_NORMAL", <<"serverInit">>)
        BY <3>1, <3>2 DEF rfbVncAuthNone
      <4>2. toServer'[c] = <<>>
        BY <2>2, <2>6, <3>2 DEF Mac
      <4>3. state'[c] = "RFB_NORMAL" => Readable(c)'
        BY <1>8, <4>2 DEF Readable, Script
      <4>4. state'[c] = "RFB_NORMAL" /\ awaits[c] # "left" /\ toClient'[c] = <<"serverInit">> =>
              Receivable(c)' /\ Turn(c)'
        <5>1. awaits[c] # "left" => awaits'[c] = "serverInit"
          BY <1>1, <2>3, <3>2 DEF ThenAwaits
        <5>2. QED BY <4>2, <5>1 DEF Receivable, Turn, ClientsTurn, ServerMessages
      <4>5. "serverInit" \in ServerMessages /\ "RFB_NORMAL" \in States \ {"CLOSED", "confused"}
        BY DEF ServerMessages, States
      <4>6. QED BY <1>6, <1>8, <2>1, <2>4, <4>1, <4>3, <4>4, <4>5
    <3>3. CASE minor[c] > 7 /\ ~Mac(c)
      <4>1. Reply(c, "RFB_INITIALISATION", <<"result">>)
        BY <3>1, <3>3 DEF rfbVncAuthNone
      <4>2. toServer'[c] = <<>>
        BY <1>3, <2>2, <2>6, <3>3
      <4>3. state'[c] = "RFB_INITIALISATION" => Readable(c)'
        BY <4>2 DEF Readable, Script
      <4>4. state'[c] = "RFB_INITIALISATION" /\ awaits[c] # "left" /\ toClient'[c] = <<"result">> =>
              Receivable(c)' /\ Turn(c)'
        <5>1. awaits[c] # "left" => awaits'[c] = "result" /\ minor'[c] > 7 /\ ~Mac(c)'
          BY <1>1, <1>3, <2>3, <3>3 DEF ThenAwaits, Mac
        <5>2. QED BY <4>2, <5>1 DEF Receivable, Turn, ClientsTurn, ServerMessages
      <4>5. "result" \in ServerMessages /\ "RFB_INITIALISATION" \in States \ {"CLOSED", "confused"}
        BY DEF ServerMessages, States
      <4>6. QED BY <1>6, <1>8, <2>1, <2>4, <4>1, <4>3, <4>4, <4>5
    <3>4. CASE minor[c] = 7
      <4>1. Reply(c, "RFB_INITIALISATION", <<>>)
        BY <3>1, <3>4 DEF rfbVncAuthNone, Mac
      <4>2. toServer'[c] = <<"clientInit">>
        BY <2>2, <2>6, <3>4
      <4>3. state'[c] = "RFB_INITIALISATION" => Readable(c)'
        BY <4>2 DEF Readable, Script
      <4>4. state'[c] = "RFB_INITIALISATION" /\ awaits[c] # "left" /\ toClient'[c] = <<>> =>
              Receivable(c)' /\ Turn(c)'
        <5>1. awaits[c] # "left" => awaits'[c] = "serverInit"
          BY <1>1, <2>3, <3>4 DEF ThenAwaits
        <5>2. QED BY <4>2, <5>1, Short DEF Receivable, Turn, ServersTurn, ServerMessages
      <4>5. "RFB_INITIALISATION" \in States \ {"CLOSED", "confused"}
        BY DEF States
      <4>6. QED BY <1>6, <1>8, <2>1, <2>4, <4>1, <4>3, <4>4, <4>5
    <3>5. QED BY <1>3, <2>4, <3>2, <3>3, <3>4
  <2>7. QED BY <2>2, <2>5, <2>6
<1>11. CASE state[c] = "RFB_INITIALISATION"
  <2>1. rfbProcessClientInitMessage(c, m) /\ UNCHANGED securityHandlers
    BY <1>11 DEF rfbProcessClientMessage, m
  <2>2. m = "clientInit" /\ toServer'[c] = <<>>
    BY <1>3, <1>5, <1>11, Short DEF Script, m
  <2>3. Reply(c, "RFB_NORMAL", <<"serverInit">>)
    BY <2>1, <2>2 DEF rfbProcessClientInitMessage
  <2>4. awaits[c] # "left" => awaits'[c] = "serverInit"
    BY <1>1, <1>4, <1>11 DEF ServersTurn, Up
  <2>5. state'[c] = "RFB_NORMAL" => Readable(c)'
    BY <1>8, <2>2 DEF Readable, Script
  <2>6. state'[c] = "RFB_NORMAL" /\ awaits[c] # "left" /\ toClient'[c] = <<"serverInit">> =>
          Receivable(c)' /\ Turn(c)'
    BY <2>2, <2>4 DEF Receivable, Turn, ClientsTurn, ServerMessages
  <2>7. "serverInit" \in ServerMessages /\ "RFB_NORMAL" \in States \ {"CLOSED", "confused"}
    BY DEF ServerMessages, States
  <2>8. securityHandlers' \subseteq {"none"}
    BY <1>2, <2>1 DEF TypeOK
  <2>9. QED BY <1>6, <1>8, <2>1, <2>3, <2>5, <2>6, <2>7, <2>8
<1>12. CASE state[c] = "RFB_NORMAL"
  <2>1. rfbProcessClientNormalMessage(c, m) /\ UNCHANGED securityHandlers
    BY <1>12 DEF rfbProcessClientMessage, m
  <2>2. toServer[c] \in Seq({"request"})
    BY <1>5, <1>12 DEF Script
  <2>3. m = "request" /\ toServer'[c] \in Seq({"request"})
    BY <1>3, <2>2, Rest DEF m
  <2>4. Reply(c, "RFB_NORMAL", <<>>)
    BY <2>1, <2>3 DEF rfbProcessClientNormalMessage
  <2>5. awaits[c] # "left" => awaits'[c] = "nothing"
    BY <1>1, <1>4, <1>12 DEF ServersTurn, Up
  <2>6. state'[c] = "RFB_NORMAL" => Readable(c)'
    BY <2>3 DEF Readable, Script
  <2>7. state'[c] = "RFB_NORMAL" /\ awaits[c] # "left" /\ toClient'[c] = <<>> =>
          Receivable(c)' /\ Turn(c)'
    BY <2>5 DEF Receivable, Turn, Up
  <2>8. "RFB_NORMAL" \in States \ {"CLOSED", "confused"}
    BY DEF States
  <2>9. securityHandlers' \subseteq {"none"}
    BY <1>2, <2>1 DEF TypeOK
  <2>10. QED BY <1>6, <1>8, <2>1, <2>4, <2>6, <2>7, <2>8, <2>9
<1>13. state[c] \in {"RFB_PROTOCOL_VERSION", "RFB_SECURITY_TYPE", "RFB_INITIALISATION", "RFB_NORMAL"}
  BY <1>2 DEF Served, TypeOK, States
<1>14. QED BY <1>9, <1>10, <1>11, <1>12, <1>13

\* A client gets what it waits for, and answers what the server expects.
LEMMA ReceiveInv ==
  ASSUME IInv, NEW c \in Clients, Receive(c)
  PROVE  IInv'
<1>1. TypeOK /\ ReadingServed /\ Good(c)
  BY DEF IInv
<1>2. /\ toClient[c] # <<>> /\ awaits[c] \notin {"left", "confused"}
      /\ toClient' = [toClient EXCEPT ![c] = Tail(@)]
      /\ UNCHANGED <<state, securityHandlers, reading, minor>>
  BY DEF Receive
<1>3. awaits[c] \in ServerMessages /\ toClient[c] = <<awaits[c]>>
  BY <1>1, <1>2 DEF Good, Receivable
<1>4. Head(toClient[c]) = awaits[c] /\ Tail(toClient[c]) = <<>>
  BY <1>3, Short
<1>5. /\ awaits' = [awaits EXCEPT ![c] = ThenAwaits(c, awaits[c])]
      /\ \E a \in Answers(c, awaits[c]) : toServer' = [toServer EXCEPT ![c] = @ \o a]
      /\ late' \in [Clients -> BOOLEAN]
  BY <1>1, <1>4 DEF Receive, TypeOK
<1>6. PICK a \in Answers(c, awaits[c]) : toServer' = [toServer EXCEPT ![c] = @ \o a]
  BY <1>5
<1>7. ThenAwaits(c, awaits[c]) \in ServerMessages \cup {"nothing"}
  BY DEF ThenAwaits, ServerMessages
<1>8. a \in {<<>>, <<"version">>, <<"garbage">>, <<"clientInit">>, <<"otherType">>, <<"none">>,
             <<"none", "clientInit">>}
  BY <1>6 DEF Answers
<1>9. a \in Seq(ClientMessages)
  <2>1. /\ <<>> \in Seq(ClientMessages)
        /\ \A x \in ClientMessages : <<x>> \in Seq(ClientMessages)
        /\ \A x, y \in ClientMessages : <<x, y>> \in Seq(ClientMessages)
    OBVIOUS
  <2>2. {"version", "garbage", "clientInit", "otherType", "none"} \subseteq ClientMessages
    BY DEF ClientMessages
  <2>3. QED BY <1>8, <2>1, <2>2
<1>10. toServer[c] \in Seq(ClientMessages) /\ toServer[c] \o a \in Seq(ClientMessages)
  BY <1>1, <1>9, Joined DEF TypeOK
<1>11. TypeOK'
  <2>1. toServer' \in [Clients -> Seq(ClientMessages)]
    BY <1>1, <1>6, <1>10 DEF TypeOK
  <2>2. toClient' \in [Clients -> Seq(ServerMessages)]
    BY <1>1, <1>2, <1>4 DEF TypeOK
  <2>3. awaits' \in [Clients -> ServerMessages \cup {"nothing", "left", "confused"}]
    BY <1>1, <1>5, <1>7 DEF TypeOK
  <2>4. QED BY <1>1, <1>2, <1>5, <2>1, <2>2, <2>3 DEF TypeOK
<1>12. /\ state'[c] = state[c] /\ minor'[c] = minor[c] /\ toClient'[c] = <<>>
       /\ awaits'[c] = ThenAwaits(c, awaits[c]) /\ toServer'[c] = toServer[c] \o a
       /\ OnlyFor(c)
  BY <1>1, <1>2, <1>4, <1>5, <1>6 DEF TypeOK, OnlyFor
<1>13. awaits'[c] # "confused" /\ awaits'[c] # "left" /\ Receivable(c)'
  BY <1>7, <1>12 DEF Receivable, ServerMessages
<1>14. ReadingServed'
  BY <1>1, <1>2 DEF ReadingServed, Served
<1>15. Readable(c)' /\ Turn(c)'
  <2>1. CASE ~Served(c)
    BY <1>12, <2>1 DEF Readable, Turn, Served
  <2>2. CASE Served(c)
    <3>1. ClientsTurn(c)
      BY <1>1, <1>2, <2>2 DEF Good, Turn, ServersTurn, Up
    <3>2. <<>> \o a = a
      BY <1>9
    <3>3. toServer'[c] = a
      BY <1>12, <3>1, <3>2 DEF ClientsTurn
    <3>4. minor[c] \in Nat
      BY <1>1, MinorsAssumption DEF TypeOK
    <3>5. CASE awaits[c] = "version"
      <4>1. state[c] = "RFB_PROTOCOL_VERSION" /\ a \in {<<"version">>, <<"garbage">>}
        BY <1>6, <3>1, <3>5 DEF ClientsTurn, Answers
      <4>2. Readable(c)'
        BY <1>12, <3>3, <4>1 DEF Readable, Script
      <4>3. ThenAwaits(c, "version")' = ThenAwaits(c, "version")
        BY <1>12 DEF ThenAwaits, Mac
      <4>4. Turn(c)'
        BY <1>12, <3>3, <3>5, <4>1, <4>3, Short DEF Turn, ServersTurn
      <4>5. QED BY <4>2, <4>4
    <3>6. CASE awaits[c] = "list"
      <4>1. /\ state[c] = "RFB_SECURITY_TYPE"
            /\ a \in {<<"otherType">>, IF minor[c] = 7 THEN <<"none", "clientInit">> ELSE <<"none">>}
        BY <1>6, <3>1, <3>6 DEF ClientsTurn, Answers
      <4>2. Readable(c)'
        <5>1. minor[c] >= 7 /\ "none" \in securityHandlers
          BY <1>1, <2>2, <4>1 DEF Good, Readable
        <5>2. QED BY <1>2, <1>12, <3>3, <4>1, <5>1 DEF Readable, Script
      <4>3. ThenAwaits(c, "list")' = ThenAwaits(c, "list")
        BY <1>12 DEF ThenAwaits, Mac
      <4>4. a # <<>>
        BY <4>1, Short
      <4>5. Turn(c)'
        BY <1>12, <3>3, <3>6, <4>1, <4>3, <4>4 DEF Turn, ServersTurn
      <4>6. QED BY <4>2, <4>5
    <3>7. CASE awaits[c] \in {"type", "result"}
      <4>1. state[c] = "RFB_INITIALISATION" /\ a = <<"clientInit">>
        BY <1>6, <3>1, <3>7 DEF ClientsTurn, Answers
      <4>2. Readable(c)'
        BY <1>12, <3>3, <4>1 DEF Readable, Script
      <4>3. awaits'[c] = "serverInit"
        BY <1>12, <3>7 DEF ThenAwaits
      <4>4. Turn(c)'
        BY <1>12, <3>3, <4>1, <4>3, Short DEF Turn, ServersTurn
      <4>5. QED BY <4>2, <4>4
    <3>8. CASE awaits[c] = "serverInit"
      <4>1. state[c] = "RFB_NORMAL" /\ a = <<>>
        BY <1>6, <3>1, <3>8 DEF ClientsTurn, Answers
      <4>2. <<>> \in Seq({"request"})
        OBVIOUS
      <4>3. Readable(c)'
        BY <1>12, <3>3, <4>1, <4>2 DEF Readable, Script
      <4>4. awaits'[c] = "nothing"
        BY <1>12, <3>8 DEF ThenAwaits
      <4>5. Turn(c)'
        BY <1>12, <4>1, <4>4 DEF Turn, Up
      <4>6. QED BY <4>3, <4>5
    <3>9. QED BY <1>3, <3>5, <3>6, <3>7, <3>8 DEF ServerMessages
  <2>3. QED BY <2>1, <2>2
<1>16. Good(c)'
  BY <1>1, <1>12, <1>13, <1>15 DEF Good
<1>17. QED BY <1>2, <1>11, <1>12, <1>14, <1>16, Others

\* Requests come from a client that is up.
LEMMA RequestInv ==
  ASSUME IInv, NEW c \in Clients, Request(c)
  PROVE  IInv'
<1>1. TypeOK /\ ReadingServed /\ Good(c)
  BY DEF IInv
<1>2. /\ awaits[c] = "nothing" /\ toServer' = [toServer EXCEPT ![c] = Append(@, "request")]
      /\ UNCHANGED <<state, securityHandlers, reading, toClient, minor, awaits>>
      /\ late' \in [Clients -> BOOLEAN]
  BY <1>1 DEF Request, TypeOK
<1>3. toServer[c] \in Seq(ClientMessages) /\ Append(toServer[c], "request") \in Seq(ClientMessages)
  BY <1>1 DEF TypeOK, ClientMessages
<1>4. TypeOK'
  BY <1>1, <1>2, <1>3 DEF TypeOK
<1>5. toServer'[c] = Append(toServer[c], "request") /\ OnlyFor(c)
  BY <1>1, <1>2 DEF TypeOK, OnlyFor
<1>6. ReadingServed'
  BY <1>1, <1>2 DEF ReadingServed, Served
<1>7. Served(c) => Up(c)
  BY <1>1, <1>2, MinorsAssumption DEF TypeOK, Good, Turn, ClientsTurn, ServersTurn, ThenAwaits
<1>8. Readable(c)'
  <2>1. Served(c) => toServer[c] \in Seq({"request"})
    BY <1>1, <1>7 DEF Good, Readable, Script, Up
  <2>2. toServer[c] \in Seq({"request"}) => Append(toServer[c], "request") \in Seq({"request"})
    OBVIOUS
  <2>3. QED BY <1>2, <1>5, <1>7, <2>1, <2>2 DEF Readable, Script, Served, Up
<1>9. Turn(c)' /\ Receivable(c)'
  BY <1>1, <1>2, <1>7 DEF Good, Turn, Served, Up, Receivable
<1>10. Good(c)'
  BY <1>1, <1>2, <1>8, <1>9 DEF Good
<1>11. QED BY <1>2, <1>4, <1>5, <1>6, <1>10, Others

\* The rest of a message changes nothing, the client that leaves promises nothing.
LEMMA StillInv ==
  ASSUME IInv, NEW c \in Clients, RestArrives(c) \/ Leave(c) \/ ReadWaits(c)
  PROVE  IInv'
<1>1. TypeOK /\ ReadingServed /\ Good(c)
  BY DEF IInv
<1>2. /\ UNCHANGED <<state, securityHandlers, toServer, toClient, minor>>
      /\ awaits' = awaits \/ awaits' = [awaits EXCEPT ![c] = "left"]
      /\ reading' = reading \/ (reading' = c /\ Served(c))
  BY DEF RestArrives, Leave, ReadWaits
<1>3. TypeOK'
  <2>1. late' \in [Clients -> BOOLEAN]
    BY <1>1 DEF TypeOK, RestArrives, Leave, ReadWaits
  <2>2. awaits' \in [Clients -> ServerMessages \cup {"nothing", "left", "confused"}]
    BY <1>1, <1>2 DEF TypeOK
  <2>3. QED BY <1>1, <1>2, <2>1, <2>2 DEF TypeOK
<1>4. OnlyFor(c) /\ (awaits'[c] = awaits[c] \/ awaits'[c] = "left")
  BY <1>1, <1>2 DEF TypeOK, OnlyFor
<1>5. ReadingServed'
  BY <1>1, <1>2 DEF ReadingServed, Served
<1>6. Readable(c)' /\ Receivable(c)'
  BY <1>1, <1>2, <1>4 DEF Good, Readable, Receivable, Served, Script
<1>7. Turn(c)'
  BY <1>1, <1>2, <1>4 DEF Good, Turn, Served, ClientsTurn, ServersTurn, Up, Mac, ThenAwaits
<1>8. Good(c)'
  BY <1>1, <1>2, <1>4, <1>6, <1>7 DEF Good
<1>9. QED BY <1>2, <1>3, <1>4, <1>5, <1>8, Others

\* The server may close a connection at any moment.
LEMMA CloseInv ==
  ASSUME IInv, NEW c \in Clients, rfbCloseClient(c)
  PROVE  IInv'
<1>1. TypeOK
  BY DEF IInv
<1>2. QED BY <1>1, Closing DEF rfbCloseClient, TypeOK

\* No step of the server, of a client or of the network leaves the inductive
\* invariant.
LEMMA NextInv == IInv /\ [Next]_vars => IInv'
<1> SUFFICES ASSUME IInv, [Next]_vars PROVE IInv'
  OBVIOUS
<1>1. ASSUME NEW c \in Clients, Read(c) \/ ReadRest(c) PROVE IInv'
  <2>1. rfbProcessClientMessage(c) /\ toServer[c] # <<>>
    BY <1>1 DEF Read, ReadRest, Complete
  <2>2. Served(c)
    BY <1>1, NoClientAssumption DEF Read, ReadRest, IInv, ReadingServed
  <2>3. QED BY <2>1, <2>2, ProcessInv
<1>2. ASSUME NEW c \in Clients, ReadEnd(c) \/ ReadTimeout(c) PROVE IInv'
  BY <1>2, CloseInv DEF ReadEnd, ReadTimeout
<1>3. CASE UNCHANGED vars
  <2>1. TypeOK' /\ ReadingServed'
    BY <1>3 DEF vars, IInv, TypeOK, ReadingServed, Served
  <2>2. ASSUME NEW c \in Clients PROVE Good(c)'
    <3>1. Good(c)
      BY DEF IInv
    <3>2. Readable(c)' /\ Receivable(c)'
      BY <1>3, <3>1 DEF vars, Good, Readable, Receivable, Served, Script
    <3>3. Turn(c)'
      BY <1>3, <3>1 DEF vars, Good, Turn, Served, ClientsTurn, ServersTurn, Up, Mac, ThenAwaits
    <3>4. QED BY <1>3, <3>1, <3>2, <3>3 DEF vars, Good
  <2>3. QED BY <2>1, <2>2 DEF IInv
<1>4. QED BY <1>1, <1>2, <1>3, ReceiveInv, RequestInv, StillInv DEF Next, Server

\* The inductive invariant of the messages under way and of whose turn it is
\* holds in every reachable state.
THEOREM Invariance == Spec => []IInv
BY InitInv, NextInv, PTL DEF Spec

-----------------------------------------------------------------------------
(***************************************************************************)
(* The results                                                             *)
(***************************************************************************)

\* No variable leaves its type: the server keeps to the states it knows.
THEOREM TypeCorrect == Spec => []TypeOK
<1>1. IInv => TypeOK
  BY DEF IInv
<1>2. QED BY <1>1, Invariance, PTL

\* Whatever minor version a client announces and whenever it leaves, neither
\* rfbProcessClientMessage nor the client takes a message for another one.
THEOREM SidesStayInSync == Spec => []InSync
<1>1. IInv => InSync
  BY DEF IInv, Good, InSync
<1>2. QED BY <1>1, Invariance, PTL

\* The server and a client that is there never wait for each other.
THEOREM NobodyWaitsForTheOther == Spec => []NoMutualWait
<1>1. IInv => NoMutualWait
  BY Short DEF IInv, Good, NoMutualWait, Turn, ClientsTurn, ServersTurn, Up
<1>2. QED BY <1>1, Invariance, PTL
=============================================================================
