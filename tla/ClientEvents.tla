---------------------------- MODULE ClientEvents ----------------------------
(***************************************************************************)
(* What libvncserver promises the application about its clients: while the *)
(* server runs, newClientHook and clientGoneHook are called in turn for    *)
(* each client, and when rfbShutdownServer returns every client that was   *)
(* reported has been reported gone.                                        *)
(***************************************************************************)
CONSTANT Clients

VARIABLES serving,    \* between startServer and the end of rfbShutdownServer
          connected   \* the clients reported and not yet reported gone

Init == serving = FALSE /\ connected = {}

Start == ~serving /\ serving' = TRUE /\ UNCHANGED connected

newClientHook(c) ==
  serving /\ c \notin connected /\ connected' = connected \cup {c}
  /\ UNCHANGED serving

clientGoneHook(c) ==
  serving /\ c \in connected /\ connected' = connected \ {c}
  /\ UNCHANGED serving

Stop == serving /\ connected = {} /\ serving' = FALSE /\ UNCHANGED connected

Next == Start \/ Stop \/ \E c \in Clients : newClientHook(c) \/ clientGoneHook(c)

Spec == Init /\ [][Next]_<<serving, connected>>
=============================================================================
