--------------------------- MODULE RfbScaleProofs ---------------------------
(***************************************************************************)
(* Proofs, for any number of clients and of scaled sizes, that the         *)
(* references to the scaled screens are counted exactly, that a client is  *)
(* only shown the current frame and that it is told the size of what it is *)
(* sent unless it has withdrawn the encoding for that.                     *)
(***************************************************************************)
EXTENDS RfbScale, FiniteSetTheorems, TLAPS

\* The references to a screen that no client will give back.
Lost(s) == IF s = Full THEN leaked ELSE 0

\* RefCountExact, for all screens alike.
Counted == \A s \in Screens : refCount[s] = Cardinality(Users(s)) + Lost(s)

\* The screen itself always shows the frame.
FullIsCurrent == Full \in current

IInv == TypeOK /\ Counted /\ FullIsCurrent /\ CopyCurrent /\ SizeAnnounced

-----------------------------------------------------------------------------
(***************************************************************************)
(* Counting                                                                *)
(***************************************************************************)

\* There are finitely many users of a screen.
LEMMA UsersFinite ==
  ASSUME TypeOK, NEW s
  PROVE  IsFiniteSet(Users(s)) /\ Cardinality(Users(s)) \in Nat
<1>1. Users(s) \subseteq Clients
  BY DEF Users, TypeOK
<1>2. QED BY <1>1, ClientsAssumption, FS_Subset, FS_CardinalityType

\* Whoever looks at a screen is counted.
LEMMA UsedIsCounted ==
  ASSUME TypeOK, Counted, NEW c \in clients
  PROVE  refCount[scaled[c]] >= 1
<1>1. scaled[c] \in Screens /\ c \in Users(scaled[c]) /\ Lost(scaled[c]) \in Nat
  BY MaxLeaksAssumption DEF TypeOK, Users, Lost
<1>2. Users(scaled[c]) # {}
  BY <1>1
<1>3. Cardinality(Users(scaled[c])) # 0 /\ Cardinality(Users(scaled[c])) \in Nat
  BY <1>2, UsersFinite, FS_EmptySet
<1>4. QED BY <1>1, <1>3 DEF Counted

\* The count goes up by one with a new user.
LEMMA UserComes ==
  ASSUME TypeOK, NEW s, NEW c, c \notin Users(s), Users(s)' = Users(s) \cup {c}
  PROVE  Cardinality(Users(s)') = Cardinality(Users(s)) + 1
BY UsersFinite, FS_AddElement

\* The count goes down by one when a user goes.
LEMMA UserGoes ==
  ASSUME TypeOK, NEW s, NEW c, c \in Users(s), Users(s)' = Users(s) \ {c}
  PROVE  Cardinality(Users(s)') = Cardinality(Users(s)) - 1
BY UsersFinite, FS_RemoveElement

\* Counted is RefCountExact with the two cases joined.
LEMMA CountedIsExact == ASSUME TypeOK PROVE Counted <=> RefCountExact
<1>1. \A s \in Sizes : s \in Screens /\ Lost(s) = 0
  BY SizesAssumption DEF Screens, Lost
<1>2. Full \in Screens /\ Lost(Full) = leaked
  BY DEF Screens, Lost
<1>3. \A s \in Screens : s = Full \/ s \in Sizes
  BY DEF Screens
<1>4. \A s : Cardinality(Users(s)) \in Nat
  BY UsersFinite
<1>5. QED BY <1>1, <1>2, <1>3, <1>4 DEF Counted, RefCountExact

-----------------------------------------------------------------------------
(***************************************************************************)
(* The inductive invariant                                                 *)
(***************************************************************************)

\* The unscaled screen is alone, current and not referred to.
LEMMA InitInv == Init => IInv
<1> SUFFICES ASSUME Init PROVE IInv
  OBVIOUS
<1> USE DEF Init
<1>1. TypeOK
  <2>1. leaked \in 0..MaxLeaks /\ refCount \in [Screens -> Nat]
    BY MaxLeaksAssumption
  <2>2. scaled \in [Clients -> Screens] /\ told \in [Clients -> Screens]
    BY DEF Screens
  <2>3. current \subseteq Screens
    BY DEF Screens
  <2>4. QED BY <2>1, <2>2, <2>3 DEF TypeOK
<1>2. Counted
  <2>1. \A s : Users(s) = {}
    BY DEF Users
  <2>2. QED BY <2>1, FS_EmptySet DEF Counted, Lost
<1>3. QED BY <1>1, <1>2 DEF IInv, FullIsCurrent, CopyCurrent, SizeAnnounced

\* A record that is made counts for the screen itself.
LEMMA NewClientInv ==
  ASSUME IInv, NEW c \in Clients, NewClient(c)
  PROVE  IInv'
<1> USE DEF NewClient, IInv
<1> Full \in Screens
  BY DEF Screens
<1>1. TypeOK'
  BY DEF TypeOK
<1>2. Counted'
  <2> SUFFICES ASSUME NEW s \in Screens
               PROVE  refCount'[s] = Cardinality(Users(s)') + Lost(s)'
    BY DEF Counted
  <2>1. CASE s = Full
    <3>1. c \notin Users(s) /\ Users(s)' = Users(s) \cup {c}
      BY <2>1 DEF Users, TypeOK
    <3>2. Lost(s)' = Lost(s) /\ Lost(s) \in Nat
      BY MaxLeaksAssumption DEF Lost, TypeOK
    <3>3. refCount'[s] = refCount[s] + 1
      BY <2>1 DEF TypeOK
    <3>4. Cardinality(Users(s)') = Cardinality(Users(s)) + 1
      BY <3>1, UserComes
    <3>5. QED BY <3>2, <3>3, <3>4, UsersFinite DEF Counted
  <2>2. CASE s # Full
    <3>1. Users(s)' = Users(s)
      BY <2>2 DEF Users, TypeOK
    <3>2. refCount'[s] = refCount[s] /\ Lost(s)' = Lost(s)
      BY <2>2 DEF TypeOK, Lost
    <3>3. QED BY <3>1, <3>2 DEF Counted
  <2>3. QED BY <2>1, <2>2
<1>3. FullIsCurrent' /\ CopyCurrent'
  BY DEF FullIsCurrent, CopyCurrent, TypeOK
<1>4. SizeAnnounced'
  <2>1. told'[c] = scaled'[c]
    BY DEF TypeOK
  <2>2. ASSUME NEW d \in clients, d # c
        PROVE  /\ told'[d] = told[d] /\ scaled'[d] = scaled[d] /\ pending'[d] = pending[d]
               /\ newFBSize'[d] = newFBSize[d] /\ (d \in withdrawn' <=> d \in withdrawn)
    BY <2>2 DEF TypeOK
  <2>3. QED BY <2>1, <2>2 DEF SizeAnnounced
<1>5. QED BY <1>1, <1>2, <1>3, <1>4

\* A record that is lost half-way stays counted.
LEMMA NewClientFailsInv ==
  ASSUME IInv, NewClientFails
  PROVE  IInv'
<1> USE DEF NewClientFails, IInv
<1> Full \in Screens
  BY DEF Screens
<1>1. TypeOK'
  BY MaxLeaksAssumption DEF TypeOK
<1>2. Counted'
  <2> SUFFICES ASSUME NEW s \in Screens
               PROVE  refCount'[s] = Cardinality(Users(s)') + Lost(s)'
    BY DEF Counted
  <2>1. Users(s)' = Users(s) /\ Cardinality(Users(s)) \in Nat
    BY UsersFinite DEF Users
  <2>2. leaked \in Nat /\ refCount[s] \in Nat
    BY MaxLeaksAssumption DEF TypeOK
  <2>3. QED BY <2>1, <2>2 DEF Counted, Lost, TypeOK
<1>3. FullIsCurrent' /\ CopyCurrent' /\ SizeAnnounced'
  BY DEF FullIsCurrent, CopyCurrent, SizeAnnounced
<1>4. QED BY <1>1, <1>2, <1>3

\* A client that goes gives back the one reference it holds.
LEMMA GoneInv ==
  ASSUME IInv, NEW c \in Clients, rfbClientConnectionGone(c)
  PROVE  IInv'
<1> USE DEF rfbClientConnectionGone, IInv
<1>1. refCount[scaled[c]] >= 1 /\ scaled[c] \in Screens
  BY UsedIsCounted DEF TypeOK
<1>2. TypeOK'
  BY <1>1 DEF TypeOK
<1>3. Counted'
  <2> SUFFICES ASSUME NEW s \in Screens
               PROVE  refCount'[s] = Cardinality(Users(s)') + Lost(s)'
    BY DEF Counted
  <2>1. Lost(s)' = Lost(s) /\ Lost(s) \in Nat
    BY MaxLeaksAssumption DEF Lost, TypeOK
  <2>2. CASE s = scaled[c]
    <3>1. c \in Users(s) /\ Users(s)' = Users(s) \ {c}
      BY <2>2 DEF Users
    <3>2. refCount'[s] = refCount[s] - 1
      BY <2>2 DEF TypeOK
    <3>3. Cardinality(Users(s)') = Cardinality(Users(s)) - 1
      BY <3>1, UserGoes
    <3>4. Cardinality(Users(s)) \in Nat /\ refCount[s] = Cardinality(Users(s)) + Lost(s)
      BY UsersFinite DEF Counted
    <3>5. QED BY <2>1, <3>2, <3>3, <3>4
  <2>3. CASE s # scaled[c]
    <3>1. Users(s)' = Users(s)
      BY <2>3 DEF Users
    <3>2. refCount'[s] = refCount[s]
      BY <2>3 DEF TypeOK
    <3>3. QED BY <2>1, <3>1, <3>2 DEF Counted
  <2>4. QED BY <2>2, <2>3
<1>4. FullIsCurrent' /\ CopyCurrent' /\ SizeAnnounced'
  BY DEF FullIsCurrent, CopyCurrent, SizeAnnounced
<1>5. QED BY <1>2, <1>3, <1>4

\* SetScale moves one reference, and scales the frame unless the screen is in use.
LEMMA SetScaleInv ==
  ASSUME IInv, NEW c \in Clients, NEW s \in Screens, SetScale(c, s)
  PROVE  IInv'
<1> USE DEF SetScale, IInv
<1>1. refCount[scaled[c]] >= 1 /\ scaled[c] \in Screens
  BY UsedIsCounted DEF TypeOK
<1>2. scaled' = [scaled EXCEPT ![c] = s] /\ scaled'[c] = s
  BY DEF TypeOK
<1>3. TypeOK'
  <2>1. refCount' \in [Screens -> Nat]
    BY <1>1 DEF TypeOK
  <2>2. chain' \subseteq Sizes /\ current' \subseteq Screens
    BY DEF TypeOK, Screens
  <2>3. pending' \in [Clients -> BOOLEAN] /\ told' \in [Clients -> Screens]
    BY DEF TypeOK
  <2>4. QED BY <2>1, <2>2, <2>3 DEF TypeOK
<1>4. Counted'
  <2> SUFFICES ASSUME NEW t \in Screens
               PROVE  refCount'[t] = Cardinality(Users(t)') + Lost(t)'
    BY DEF Counted
  <2>1. Lost(t)' = Lost(t) /\ Lost(t) \in Nat /\ refCount[t] \in Nat
    BY MaxLeaksAssumption DEF Lost, TypeOK
  <2>2. refCount[t] = Cardinality(Users(t)) + Lost(t) /\ Cardinality(Users(t)) \in Nat
    BY UsersFinite DEF Counted
  <2>3. CASE t = s /\ t # scaled[c]
    <3>1. c \notin Users(t) /\ Users(t)' = Users(t) \cup {c}
      BY <1>2, <2>3 DEF Users, TypeOK
    <3>2. refCount'[t] = refCount[t] + 1
      BY <2>1, <2>3
    <3>3. Cardinality(Users(t)') = Cardinality(Users(t)) + 1
      BY <3>1, UserComes
    <3>4. QED BY <2>1, <2>2, <3>2, <3>3
  <2>4. CASE t # s /\ t = scaled[c]
    <3>1. c \in Users(t) /\ Users(t)' = Users(t) \ {c}
      BY <1>2, <2>4 DEF Users, TypeOK
    <3>2. refCount'[t] = refCount[t] - 1
      BY <2>1, <2>4
    <3>3. Cardinality(Users(t)') = Cardinality(Users(t)) - 1
      BY <3>1, UserGoes
    <3>4. QED BY <2>1, <2>2, <3>2, <3>3
  <2>5. CASE (t = s) <=> (t = scaled[c])
    <3>1. Users(t)' = Users(t)
      BY <1>2, <2>5 DEF Users, TypeOK
    <3>2. refCount'[t] = refCount[t]
      BY <2>1, <2>5
    <3>3. QED BY <2>1, <2>2, <3>1, <3>2
  <2>6. QED BY <2>3, <2>4, <2>5
<1>5. s \in chain' \cup {Full} /\ s \in current' /\ current \subseteq current' /\ chain \subseteq chain'
  <2>1. CASE s = Full
    BY <2>1 DEF FullIsCurrent
  <2>2. CASE s # Full /\ ~TakenAsItIs(s)
    BY <2>2
  <2>3. CASE s # Full /\ TakenAsItIs(s)
    <3>1. s \in Sizes /\ refCount[s] >= 1 /\ Lost(s) = 0
      BY <2>3 DEF TakenAsItIs, Screens, Lost
    <3>2. Cardinality(Users(s)) # 0
      BY <3>1, UsersFinite DEF Counted
    <3>3. Users(s) # {}
      BY <3>2, FS_EmptySet
    <3>4. PICK d \in clients : scaled[d] = s
      BY <3>3 DEF Users
    <3>5. QED BY <2>3, <3>4 DEF CopyCurrent
  <2>4. QED BY <2>1, <2>2, <2>3
<1>6. FullIsCurrent' /\ CopyCurrent'
  BY <1>2, <1>5 DEF FullIsCurrent, CopyCurrent, TypeOK
<1>7. SizeAnnounced'
  <2>1. told'[c] # scaled'[c] => pending'[c] /\ newFBSize'[c]
    BY <1>2 DEF AnnouncedAtOnce, TypeOK
  <2>2. ASSUME NEW d \in clients, d # c
        PROVE  /\ told'[d] = told[d] /\ scaled'[d] = scaled[d] /\ pending'[d] = pending[d]
               /\ newFBSize'[d] = newFBSize[d] /\ (d \in withdrawn' <=> d \in withdrawn)
    BY <2>2 DEF TypeOK
  <2>3. QED BY <2>1, <2>2 DEF SizeAnnounced
<1>8. QED BY <1>3, <1>4, <1>6, <1>7

\* A client that cannot have its scale is told the one it has, or will be.
LEMMA AnnouncementInv ==
  ASSUME IInv, NEW c \in Clients, SetScaleFails(c) \/ SendNewFBSize(c) \/ SetEncodings(c)
  PROVE  IInv'
<1> USE DEF SetScaleFails, SendNewFBSize, SetEncodings, IInv
<1>1. TypeOK'
  BY DEF TypeOK
<1>2. UNCHANGED <<clients, scaled, chain, refCount, current, leaked>>
  OBVIOUS
<1>3. Counted' /\ FullIsCurrent' /\ CopyCurrent'
  BY <1>2 DEF Counted, Users, Lost, FullIsCurrent, CopyCurrent
<1>4. SizeAnnounced'
  <2>1. told'[c] # scaled'[c] => pending'[c] /\ (newFBSize'[c] \/ c \in withdrawn')
    <3>1. CASE SetEncodings(c)
      BY <3>1 DEF SizeAnnounced, TypeOK
    <3>2. CASE SetScaleFails(c) \/ SendNewFBSize(c)
      BY <3>2 DEF SizeAnnounced, TypeOK
    <3>3. QED BY <3>1, <3>2
  <2>2. ASSUME NEW d \in clients, d # c
        PROVE  /\ told'[d] = told[d] /\ scaled'[d] = scaled[d] /\ pending'[d] = pending[d]
               /\ newFBSize'[d] = newFBSize[d] /\ (d \in withdrawn' <=> d \in withdrawn)
    BY <2>2 DEF TypeOK
  <2>3. QED BY <1>2, <2>1, <2>2 DEF SizeAnnounced
<1>5. QED BY <1>1, <1>3, <1>4

\* A new frame reaches every screen in use.
LEMMA MarkInv ==
  ASSUME IInv, MarkRectAsModified
  PROVE  IInv'
<1> USE DEF MarkRectAsModified, IInv
<1>1. TypeOK'
  BY DEF TypeOK, Screens
<1>2. Counted' /\ FullIsCurrent' /\ SizeAnnounced'
  BY DEF Counted, Users, Lost, FullIsCurrent, SizeAnnounced
<1>3. CopyCurrent'
  <2> SUFFICES ASSUME NEW c \in clients
               PROVE  scaled[c] \in chain \cup {Full} /\ scaled[c] \in current'
    BY DEF CopyCurrent
  <2>1. refCount[scaled[c]] >= 1 /\ refCount[scaled[c]] \in Nat
    BY UsedIsCounted DEF TypeOK
  <2>2. refCount[scaled[c]] > 0
    BY <2>1
  <2>3. QED BY <2>2 DEF CopyCurrent
<1>4. QED BY <1>1, <1>2, <1>3

\* No request, arrival, departure or frame leaves the inductive invariant.
LEMMA NextInv == IInv /\ [Next]_vars => IInv'
<1> SUFFICES ASSUME IInv, [Next]_vars PROVE IInv'
  OBVIOUS
<1>1. CASE NewClientFails
  BY <1>1, NewClientFailsInv
<1>2. CASE MarkRectAsModified
  BY <1>2, MarkInv
<1>3. ASSUME NEW c \in Clients,
             \/ NewClient(c) \/ rfbClientConnectionGone(c) \/ SetEncodings(c)
             \/ \E s \in Screens : SetScale(c, s)
             \/ SetScaleFails(c) \/ SendNewFBSize(c)
      PROVE  IInv'
  BY <1>3, NewClientInv, GoneInv, SetScaleInv, AnnouncementInv
<1>4. CASE UNCHANGED vars
  BY <1>4 DEF vars, IInv, TypeOK, Counted, Users, Lost, FullIsCurrent, CopyCurrent, SizeAnnounced
<1>5. QED BY <1>1, <1>2, <1>3, <1>4 DEF Next

\* The inductive invariant of references, copies and announced sizes holds in
\* every reachable state.
THEOREM Invariance == Spec => []IInv
BY InitInv, NextInv, PTL DEF Spec

-----------------------------------------------------------------------------
(***************************************************************************)
(* The results                                                             *)
(***************************************************************************)

\* The reference counts never go below zero, and the chain holds scaled screens.
THEOREM TypeCorrect == Spec => []TypeOK
<1>1. IInv => TypeOK
  BY DEF IInv
<1>2. QED BY <1>1, Invariance, PTL

\* A scaled screen is counted exactly as often as clients look at it, so that
\* it is refreshed exactly when somebody does.
THEOREM CountsAreExact == Spec => []RefCountExact
<1>1. IInv => RefCountExact
  BY CountedIsExact DEF IInv
<1>2. QED BY <1>1, Invariance, PTL

\* No client is shown a scaled screen that was left behind by the frame.
THEOREM CopiesAreCurrent == Spec => []CopyCurrent
<1>1. IInv => CopyCurrent
  BY DEF IInv
<1>2. QED BY <1>1, Invariance, PTL

\* A client knows the size of what it is sent, or is told before it is sent any
\* pixels; unless it withdrew NewFBSize itself while the announcement was pending.
THEOREM SizesAreAnnounced == Spec => []SizeAnnounced
<1>1. IInv => SizeAnnounced
  BY DEF IInv
<1>2. QED BY <1>1, Invariance, PTL
=============================================================================
