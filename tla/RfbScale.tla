------------------------------ MODULE RfbScale ------------------------------
(***************************************************************************)
(* Scaled copies of the screen, shared by clients and counted (scale.c).   *)
(* A client asks for a scale with SetScale; a screen of the resulting size *)
(* is looked up or made, and the client is told of the new size: at once,  *)
(* or with the next update if it knows the NewFBSize encoding.             *)
(*                                                                         *)
(* A screen is its size.  Its copy is current or not as a whole; which     *)
(* pixels of the frame a part of it is blended from is left out.           *)
(***************************************************************************)
EXTENDS Integers, FiniteSets

CONSTANTS Clients,
          Full,       \* the size of the screen itself
          Sizes,      \* the sizes it can be scaled to
          MaxLeaks    \* bound: clients that fail half-way

ASSUME SizesAssumption == Full \notin Sizes
ASSUME ClientsAssumption == IsFiniteSet(Clients)
ASSUME MaxLeaksAssumption == MaxLeaks \in Nat

VARIABLES
  clients,   \* the clients with a record
  scaled,    \* cl->scaledScreen
  newFBSize, \* cl->useNewFBSize
  pending,   \* cl->newFBSizePending
  told,      \* the size the client was last told
  chain,     \* the scaled screens in the chain from scaledScreenNext
  refCount,  \* scaledScreenRefCount
  current,   \* the screens whose pixels are those of the frame
  leaked,    \* records lost half-way
  withdrawn  \* history: the clients that gave up NewFBSize with an announcement pending

vars == <<clients, scaled, newFBSize, pending, told, chain, refCount, current, leaked,
          withdrawn>>

Screens == {Full} \cup Sizes

Init ==
  /\ clients = {}
  /\ scaled = [c \in Clients |-> Full] /\ told = [c \in Clients |-> Full]
  /\ newFBSize = [c \in Clients |-> FALSE] /\ pending = [c \in Clients |-> FALSE]
  /\ chain = {} /\ refCount = [s \in Screens |-> 0]
  /\ current = {Full} /\ leaked = 0 /\ withdrawn = {}

-----------------------------------------------------------------------------
\* rfbNewTCPOrUDPClient, and the server's answer to ClientInit with the size.
NewClient(c) ==
  /\ c \notin clients
  /\ clients' = clients \cup {c}
  /\ scaled' = [scaled EXCEPT ![c] = Full] /\ told' = [told EXCEPT ![c] = Full]
  /\ newFBSize' = [newFBSize EXCEPT ![c] = FALSE]
  /\ pending' = [pending EXCEPT ![c] = FALSE]
  /\ withdrawn' = withdrawn \ {c}
  /\ refCount' = [refCount EXCEPT ![Full] = @ + 1]
  /\ UNCHANGED <<chain, current, leaked>>

\* The socket cannot be set up: the record is dropped, its reference is not.
NewClientFails ==
  /\ leaked < MaxLeaks
  /\ leaked' = leaked + 1
  /\ refCount' = [refCount EXCEPT ![Full] = @ + 1]
  /\ UNCHANGED <<clients, scaled, newFBSize, pending, told, chain, current, withdrawn>>

\* The reference is not given back.
rfbClientConnectionGoneKeepsReference(c) ==
  /\ c \in clients
  /\ clients' = clients \ {c}
  /\ UNCHANGED <<scaled, newFBSize, pending, told, chain, refCount, current, leaked, withdrawn>>

rfbClientConnectionGone(c) ==
  /\ c \in clients
  /\ clients' = clients \ {c}
  /\ refCount' = [refCount EXCEPT ![scaled[c]] = @ - 1]
  /\ UNCHANGED <<scaled, newFBSize, pending, told, chain, current, leaked, withdrawn>>

\* useNewFBSize is reset and set again if the client lists NewFBSize; the
\* announcement stays pending in either case.
SetEncodings(c) ==
  /\ c \in clients
  /\ \E known \in BOOLEAN :
       /\ newFBSize' = [newFBSize EXCEPT ![c] = known]
       /\ withdrawn' = IF known THEN withdrawn \ {c}
                       ELSE IF newFBSize[c] /\ pending[c] THEN withdrawn \cup {c} ELSE withdrawn
  /\ UNCHANGED <<clients, scaled, pending, told, chain, refCount, current, leaked>>

\* Any screen in the chain is taken as it is.
TakenAsItIsIfFound(s) == s \in chain \cup {Full}

\* rfbScaledScreenAllocate scales the frame to a new screen, rfbScalingSetup to
\* one that no client uses; one in use is taken as it is.
TakenAsItIs(s) == s = Full \/ (s \in chain /\ refCount[s] >= 1)

\* Whether the client knows NewFBSize is not looked at.
NeverAnnouncedAtOnce(c) == FALSE

\* rfbSendNewScaleSize: "if the client supports newFBsize Encoding, use it".
AnnouncedAtOnce(c) == ~newFBSize[c]

\* SetScale, with rfbScalingFind, rfbScalingSetup and rfbSendNewScaleSize.
SetScale(c, s) ==
  /\ c \in clients
  /\ chain' = IF s = Full THEN chain ELSE chain \cup {s}
  /\ current' = IF TakenAsItIs(s) THEN current ELSE current \cup {s}
  /\ refCount' = [t \in Screens |-> refCount[t] + (IF t = s THEN 1 ELSE 0)
                                                - (IF t = scaled[c] THEN 1 ELSE 0)]
  /\ scaled' = [scaled EXCEPT ![c] = s]
  /\ IF AnnouncedAtOnce(c)
     THEN /\ pending' = [pending EXCEPT ![c] = FALSE]
          /\ told' = [told EXCEPT ![c] = s] /\ withdrawn' = withdrawn \ {c}
     ELSE pending' = [pending EXCEPT ![c] = TRUE] /\ UNCHANGED <<told, withdrawn>>
  /\ UNCHANGED <<clients, newFBSize, leaked>>

\* The new screen cannot be allocated: "leaving things alone", and the client is
\* told the size it has.
SetScaleFails(c) ==
  /\ c \in clients /\ \E s \in Sizes : s \notin chain
  /\ IF newFBSize[c] /\ pending[c]
     THEN UNCHANGED <<pending, told, withdrawn>>
     ELSE /\ pending' = [pending EXCEPT ![c] = FALSE]
          /\ told' = [told EXCEPT ![c] = scaled[c]] /\ withdrawn' = withdrawn \ {c}
  /\ UNCHANGED <<clients, scaled, newFBSize, chain, refCount, current, leaked>>

\* rfbSendFramebufferUpdate with the NewFBSize marker and nothing else.
SendNewFBSize(c) ==
  /\ c \in clients /\ newFBSize[c] /\ pending[c]
  /\ pending' = [pending EXCEPT ![c] = FALSE]
  /\ told' = [told EXCEPT ![c] = scaled[c]]
  /\ UNCHANGED <<clients, scaled, newFBSize, chain, refCount, current, leaked, withdrawn>>

\* A new frame is marked: rfbScaledScreenUpdate scales it to the screens "only
\* ... if it has active clients".
MarkRectAsModified ==
  /\ current' = {Full} \cup {s \in chain \cap current : refCount[s] > 0}
  /\ UNCHANGED <<clients, scaled, newFBSize, pending, told, chain, refCount, leaked, withdrawn>>

Next ==
  \/ \E c \in Clients :
       \/ NewClient(c) \/ rfbClientConnectionGone(c) \/ SetEncodings(c)
       \/ \E s \in Screens : SetScale(c, s)
       \/ SetScaleFails(c) \/ SendNewFBSize(c)
  \/ NewClientFails
  \/ MarkRectAsModified

Spec == Init /\ [][Next]_vars

-----------------------------------------------------------------------------
(***************************************************************************)
(* Properties                                                              *)
(***************************************************************************)

TypeOK ==
  /\ clients \subseteq Clients
  /\ scaled \in [Clients -> Screens] /\ told \in [Clients -> Screens]
  /\ newFBSize \in [Clients -> BOOLEAN] /\ pending \in [Clients -> BOOLEAN]
  /\ chain \subseteq Sizes /\ current \subseteq Screens
  /\ refCount \in [Screens -> Nat] /\ leaked \in 0..MaxLeaks
  /\ withdrawn \subseteq Clients

Users(s) == {c \in clients : scaled[c] = s}

\* A scaled screen is counted exactly as often as clients look at it; only the
\* screen itself also counts the records that were lost.
RefCountExact ==
  /\ \A s \in Sizes : refCount[s] = Cardinality(Users(s))
  /\ refCount[Full] = Cardinality(Users(Full)) + leaked

\* No client is sent pixels of an old frame because nobody was looking at the
\* scaled screen when the frame changed.
CopyCurrent == \A c \in clients : scaled[c] \in chain \cup {Full} /\ scaled[c] \in current

\* A client that was not told the size of its screen has the announcement still to
\* come, with the next update (it knows NewFBSize) and before any pixels; unless it
\* withdrew NewFBSize meanwhile: then the announcement only waits for it to list
\* the encoding again.
SizeAnnounced ==
  \A c \in clients : told[c] # scaled[c] => pending[c] /\ (newFBSize[c] \/ c \in withdrawn)

\* What rfbSendFramebufferUpdate says ("If framebuffer size was changed and the client
\* supports NewFBSize encoding, just send NewFBSize marker and return") is enough for
\* no client to be sent pixels of a size that it was not told.
NoUntoldPixels == \A c \in clients : told[c] # scaled[c] => pending[c] /\ newFBSize[c]
=============================================================================
