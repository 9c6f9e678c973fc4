---------------------------- MODULE RfbHandshake ----------------------------
(***************************************************************************)
(* The opening of an RFB connection: the states cl->state goes through on  *)
(* the server and the clients it was written for, whose message order      *)
(* depends on the minor version they announce.  The screen has no password *)
(* (authPasswdData is null), so the only security type is None.            *)
(*                                                                         *)
(* One worker serves all clients.  It reads a message when its first byte  *)
(* has come and then waits for the rest, at most rfbMaxClientWait; while   *)
(* it waits nobody else is served.  What is on the wire is named by what   *)
(* the sender meant; "confused" is a receiver that takes it for something  *)
(* else.                                                                   *)
(***************************************************************************)
EXTENDS Naturals, Sequences

CONSTANTS Clients,
          Minors,      \* the minor versions clients announce
          MaxRequests, \* bound on the requests a client has under way
          NoClient     \* nobody is being waited for

ASSUME MinorsAssumption == Minors \subseteq Nat
ASSUME NoClientAssumption == NoClient \notin Clients
ASSUME MaxRequestsAssumption == MaxRequests \in Nat \ {0}

VARIABLES
  \* the server
  state,             \* cl->state; "CLOSED" once rfbCloseClient was called
  securityHandlers,  \* the security types that are registered
  reading,           \* the client whose message rfbReadExact is waiting for
  \* the wire
  toServer, toClient,
  late,              \* the end of the last message to the server is missing
  \* the clients
  minor,             \* the version a client announces
  awaits             \* the message a client waits for, "nothing" if it is up,
                     \* "left" if it hung up, "confused"

vars == <<state, securityHandlers, reading, toServer, toClient, late, minor, awaits>>

States == {"RFB_PROTOCOL_VERSION", "RFB_SECURITY_TYPE", "RFB_INITIALISATION",
           "RFB_NORMAL", "CLOSED", "confused"}
ServerMessages == {"version", "type", "list", "result", "serverInit"}
ClientMessages == {"version", "garbage", "none", "otherType", "clientInit", "request"}

\* Type invariant.
TypeOK ==
  /\ state \in [Clients -> States]
  /\ securityHandlers \subseteq {"none"}
  /\ reading \in Clients \cup {NoClient}
  /\ toServer \in [Clients -> Seq(ClientMessages)]
  /\ toClient \in [Clients -> Seq(ServerMessages)]
  /\ late \in [Clients -> BOOLEAN]
  /\ minor \in [Clients -> Minors]
  /\ awaits \in [Clients -> ServerMessages \cup {"nothing", "left", "confused"}]

\* rfbNewTCPOrUDPClient has sent the server's version, 3.8.
Init ==
  /\ state = [c \in Clients |-> "RFB_PROTOCOL_VERSION"]
  /\ securityHandlers = {} /\ reading = NoClient
  /\ toServer = [c \in Clients |-> <<>>]
  /\ toClient = [c \in Clients |-> <<"version">>]
  /\ late = [c \in Clients |-> FALSE]
  /\ minor \in [Clients -> Minors]
  /\ awaits = [c \in Clients |-> "version"]

-----------------------------------------------------------------------------
(***************************************************************************)
(* The clients                                                             *)
(***************************************************************************)
Mac(c) == minor[c] = 889   \* the viewer built into Mac OS X

\* What a client sends when it gets m, and what it waits for then.
Answers(c, m) ==
  CASE m = "version"    -> {<<"version">>, <<"garbage">>}
    [] m = "type"       -> {<<"clientInit">>}
    [] m = "list"       -> {<<"otherType">>,
                            IF minor[c] = 7 THEN <<"none", "clientInit">> ELSE <<"none">>}
    [] m = "result"     -> {<<"clientInit">>}
    [] OTHER            -> {<<>>}
ThenAwaits(c, m) ==
  CASE m = "version" -> IF minor[c] < 7 THEN "type" ELSE "list"
    [] m = "list"    -> IF minor[c] = 7 \/ Mac(c) THEN "serverInit" ELSE "result"
    [] m \in {"type", "result"} -> "serverInit"
    [] OTHER         -> "nothing"

Receive(c) ==
  /\ toClient[c] # <<>> /\ awaits[c] \notin {"left", "confused"}
  /\ LET m == Head(toClient[c]) IN
       IF m = awaits[c]
       THEN /\ awaits' = [awaits EXCEPT ![c] = ThenAwaits(c, m)]
            /\ \E a \in Answers(c, m) :
                 /\ toServer' = [toServer EXCEPT ![c] = @ \o a]
                 \* only a message of several bytes can be cut in two
                 /\ \/ UNCHANGED late
                    \/ m = "version" /\ late' = [late EXCEPT ![c] = TRUE]
       ELSE awaits' = [awaits EXCEPT ![c] = "confused"] /\ UNCHANGED <<toServer, late>>
  /\ toClient' = [toClient EXCEPT ![c] = Tail(@)]
  /\ UNCHANGED <<state, securityHandlers, reading, minor>>

\* A client that is up asks for an update.
Request(c) ==
  /\ awaits[c] = "nothing" /\ ~late[c]
  /\ Len(toServer[c]) < MaxRequests
  /\ toServer' = [toServer EXCEPT ![c] = Append(@, "request")]
  /\ late' \in {late, [late EXCEPT ![c] = TRUE]}
  /\ UNCHANGED <<state, securityHandlers, reading, toClient, minor, awaits>>

RestArrives(c) ==
  /\ late[c] /\ awaits[c] # "left" /\ late' = [late EXCEPT ![c] = FALSE]
  /\ UNCHANGED <<state, securityHandlers, reading, toServer, toClient, minor, awaits>>

Leave(c) ==
  /\ awaits[c] # "left" /\ awaits' = [awaits EXCEPT ![c] = "left"]
  /\ UNCHANGED <<state, securityHandlers, reading, toServer, toClient, late, minor>>

-----------------------------------------------------------------------------
(***************************************************************************)
(* The server: rfbProcessClientMessage                                     *)
(***************************************************************************)

\* The handler is done with client c: it goes to state s with the messages ms
\* written, or rfbWriteExact fails and the client is closed.
Reply(c, s, ms) ==
  \/ /\ state' = [state EXCEPT ![c] = s]
     /\ toClient' = [toClient EXCEPT ![c] = @ \o ms]
  \/ ms # <<>> /\ state' = [state EXCEPT ![c] = "CLOSED"] /\ UNCHANGED toClient

\* The announced version is used as it is; below 3.7 the server decides on the
\* security type (rfbSendSecurityType), else the client (rfbSendSecurityTypeList).
rfbProcessClientProtocolVersion(c, m) ==
  CASE m = "version" /\ minor[c] < 7 ->
         Reply(c, "RFB_INITIALISATION", <<"type">>) /\ UNCHANGED securityHandlers
    [] m = "version" /\ minor[c] >= 7 ->
         /\ securityHandlers' = securityHandlers \cup {"none"}
         /\ Reply(c, "RFB_SECURITY_TYPE", <<"list">>)
    [] OTHER -> Reply(c, "CLOSED", <<>>) /\ UNCHANGED securityHandlers

\* 3.8 came with SecurityResult: the test for the Mac is missing.
rfbVncAuthNoneNoMac(c) ==
  Reply(c, "RFB_INITIALISATION", IF minor[c] > 7 THEN <<"result">> ELSE <<>>)

\* The Mac waits for ServerInit and is not served.
rfbVncAuthNoneWaits(c) ==
  Reply(c, "RFB_INITIALISATION",
        IF minor[c] > 7 /\ ~Mac(c) THEN <<"result">> ELSE <<>>)

\* rfbVncAuthNone: a 3.8 client is sent a SecurityResult.  The Mac is not, and
\* it sends no ClientInit either (RFB_INITIALISATION_SHARED), so that
\* rfbProcessClientInitMessage is called at once.
rfbVncAuthNone(c) ==
  CASE Mac(c)                     -> Reply(c, "RFB_NORMAL", <<"serverInit">>)
    [] minor[c] > 7 /\ ~Mac(c)    -> Reply(c, "RFB_INITIALISATION", <<"result">>)
    [] OTHER                      -> Reply(c, "RFB_INITIALISATION", <<>>)

rfbProcessClientSecurityType(c, m) ==
  CASE m \in securityHandlers -> rfbVncAuthNone(c)
    [] m = "otherType"        -> Reply(c, "CLOSED", <<>>)
    [] OTHER                  -> Reply(c, "confused", <<>>)

rfbProcessClientInitMessage(c, m) ==
  IF m = "clientInit" THEN Reply(c, "RFB_NORMAL", <<"serverInit">>)
                      ELSE Reply(c, "confused", <<>>)

\* An update request is noted; what is sent later is not part of this module.
rfbProcessClientNormalMessage(c, m) ==
  Reply(c, IF m = "request" THEN "RFB_NORMAL" ELSE "confused", <<>>)

rfbProcessClientMessage(c) ==
  LET m == Head(toServer[c]) IN
  /\ toServer' = [toServer EXCEPT ![c] = Tail(@)]
  /\ reading' = NoClient
  /\ CASE state[c] = "RFB_PROTOCOL_VERSION" -> rfbProcessClientProtocolVersion(c, m)
       [] state[c] = "RFB_SECURITY_TYPE" ->
            rfbProcessClientSecurityType(c, m) /\ UNCHANGED securityHandlers
       [] state[c] = "RFB_INITIALISATION" ->
            rfbProcessClientInitMessage(c, m) /\ UNCHANGED securityHandlers
       [] OTHER -> rfbProcessClientNormalMessage(c, m) /\ UNCHANGED securityHandlers
  /\ UNCHANGED <<late, minor, awaits>>

rfbCloseClient(c) ==
  /\ state' = [state EXCEPT ![c] = "CLOSED"] /\ reading' = NoClient
  /\ UNCHANGED <<securityHandlers, toServer, toClient, late, minor, awaits>>

Served(c) == state[c] \notin {"CLOSED", "confused"}
Complete(c) == toServer[c] # <<>> /\ (late[c] => Len(toServer[c]) > 1)

\* rfbCheckFds found something to read from c.
Read(c) ==
  /\ reading = NoClient /\ Served(c) /\ Complete(c)
  /\ rfbProcessClientMessage(c)

\* Only the beginning of the message is there: rfbReadExact waits.
ReadWaits(c) ==
  /\ reading = NoClient /\ Served(c) /\ toServer[c] # <<>> /\ ~Complete(c)
  /\ awaits[c] # "left"
  /\ reading' = c
  /\ UNCHANGED <<state, securityHandlers, toServer, toClient, late, minor, awaits>>

ReadRest(c) ==
  /\ reading = c /\ Complete(c)
  /\ rfbProcessClientMessage(c)

\* rfbReadExact finds the connection closed.
ReadEnd(c) ==
  /\ reading \in {NoClient, c} /\ Served(c) /\ awaits[c] = "left" /\ ~Complete(c)
  /\ rfbCloseClient(c)

\* rfbReadExactTimeout waits without a limit.
ReadTimeoutNever(c) == FALSE /\ rfbCloseClient(c)

\* rfbMaxClientWait has passed.
ReadTimeout(c) ==
  /\ reading = c /\ ~Complete(c)
  /\ rfbCloseClient(c)

Server == \E c \in Clients : Read(c) \/ ReadWaits(c) \/ ReadRest(c) \/ ReadEnd(c) \/ ReadTimeout(c)

Next ==
  \/ Server
  \/ \E c \in Clients : Receive(c) \/ Request(c) \/ RestArrives(c) \/ Leave(c)

\* The worker serves every client it has something to read from, in the order
\* of its list; a client answers what it gets, but it may leave, and the rest
\* of a message may be delayed for ever.
Fairness ==
  /\ WF_vars(Server)
  /\ \A c \in Clients :
       SF_vars(Read(c) \/ ReadWaits(c) \/ ReadEnd(c)) /\ WF_vars(Receive(c))

Spec == Init /\ [][Next]_vars /\ Fairness

-----------------------------------------------------------------------------
(***************************************************************************)
(* Properties                                                              *)
(***************************************************************************)

\* Neither side ever takes a message for another one, whatever version the
\* client speaks: the server's states and the client's expectations agree.
InSync == \A c \in Clients : state[c] # "confused" /\ awaits[c] # "confused"

\* The server and a client never wait for each other: when nothing is under
\* way between them, the opening is over on both sides.
NoMutualWait ==
  \A c \in Clients :
    Served(c) /\ awaits[c] # "left" /\ toServer[c] = <<>> /\ toClient[c] = <<>>
      => state[c] = "RFB_NORMAL" /\ awaits[c] = "nothing"

\* Every opening ends, with a client that is up or a connection that is closed,
\* even if another client stops in the middle of a message.
OpeningEnds == \A c \in Clients : <>(state[c] \in {"RFB_NORMAL", "CLOSED"})

\* A client that left is noticed.
LeaverNoticed == \A c \in Clients : awaits[c] = "left" ~> state[c] = "CLOSED"
=============================================================================
