-------------------------- MODULE RfbClientsProofs --------------------------
(***************************************************************************)
(* Proofs about the client list, for any number of clients and of file     *)
(* descriptors, with and without IPv6: the list stays well formed, no      *)
(* iterator of the worker stands on a freed record, select() watches the   *)
(* right descriptors, the worker never blocks in a call, and the           *)
(* application is told of clients as module ClientEvents promises.         *)
(*                                                                         *)
(* That a scan over the list visits every record, and which ones it has    *)
(* still to visit, are questions of order.  The invariant therefore speaks *)
(* of a rank of the records that grows along the list; a new record, which *)
(* becomes the head, gets rank 0 and moves the others up by one.           *)
(***************************************************************************)
EXTENDS RfbClients, FiniteSetTheorems, WellFoundedInduction, TLAPS

\* The list is doubly linked, from clientHead on, in the order of the ranks,
\* and leaves out no live record.
Ordered(rank) ==
  /\ clientHead = Nil => Live = {}
  /\ clientHead # Nil => clientHead \in Live /\ \A d \in Live : rank[clientHead] <= rank[d]
  /\ \A c, d \in Live : rank[c] = rank[d] => c = d
  /\ \A c \in Live :
       /\ next[c] = Nil => \A d \in Live : rank[d] <= rank[c]
       /\ next[c] # Nil =>
            /\ next[c] \in Live /\ prev[next[c]] = c /\ rank[c] < rank[next[c]]
            /\ \A d \in Live : rank[d] <= rank[c] \/ rank[next[c]] <= rank[d]
       /\ prev[c] # Nil => prev[c] \in Live /\ next[prev[c]] = c
       /\ prev[c] = Nil <=> clientHead = c

\* The records an iterator on cur has still to visit.
Ahead(rank) == {c \in Live : cur # Nil /\ rank[cur] <= rank[c]}

\* The scan of rfbCheckFds will not meet a descriptor that was ready and is not
\* any more, and the scan of rfbProcessEvents leaves no closed client behind.
ReadAhead(rank) ==
  pc = "read" => \A c \in Ahead(rank) : sock[c] \in fds => wire[c] # "idle"
ClosedAhead(rank) == pc = "update" => Live \ Open \subseteq Ahead(rank)

\* Where the iterators stand.
Iterators ==
  /\ WorkerOnLiveRecord
  /\ pc = "shutdown" => cur = clientHead
  /\ pc = "freed" => cur \in Clients /\ next[cur] = clientHead

\* Closed clients are in the list only within rfbProcessEvents.
Collected ==
  /\ pc \in {"loop", "exited", "shutdown", "freed"} => Live = Open
  /\ pc = "off" => Live = {}

\* The application knows of the live clients, and of no others.
Reported == \A c \in Clients : hooked[c] = IF c \in Live THEN 1 ELSE 0

\* A connection waits at one listener, for a record that is not in use.
WaitingUnused ==
  /\ \A l \in Listeners : \A c \in backlog[l] : mem[c] \in {"unused", "freed"}
  /\ \A k, l \in Listeners : k # l => backlog[k] \cap backlog[l] = {}

\* A descriptor has one owner, and select() is told of all of them.
Sockets ==
  /\ \A c \in Open : sock[c] \in allFds
  /\ \A c \in Open : sock[c] <= maxFd
  /\ \A c, d \in Open : sock[c] = sock[d] => c = d
  /\ \A c \in Open, l \in Listeners : sock[c] # listenSock[l]
  /\ \A l \in Listeners : listenSock[l] # -1 => listenSock[l] \in allFds
  /\ \A k, l \in Listeners : listenSock[l] # -1 /\ listenSock[k] = listenSock[l] => k = l
  /\ \A fd \in allFds : \/ \E c \in Open : fd = sock[c]
                        \/ \E l \in Listeners : fd = listenSock[l]
Watched == pc \notin {"off", "crashed"} => Sockets

\* While rfbCheckFds accepts connections, what select() reported is still true;
\* of the two listeners the one that was asked for may have been emptied by the
\* preference for IPv6, but then the other one was not.
StillReady ==
  /\ pc \in {"accept", "accept6"} =>
       /\ fds \subseteq allFds
       /\ \A c \in Open : sock[c] \in fds => wire[c] # "idle"
  /\ pc = "accept" => \A l \in Listeners : listenSock[l] \in fds => backlog[l] # {}
  /\ pc = "accept6" => \A l \in Listeners \ {4} :
       listenSock[l] \in fds => backlog[4] # {} \/ backlog[l] # {}

State ==
  /\ TypeOK /\ Iterators /\ Collected /\ Reported /\ PointerHolderLives
  /\ WaitingUnused /\ Watched /\ StillReady

List(rank) == Ordered(rank) /\ ReadAhead(rank) /\ ClosedAhead(rank)

IInv == State /\ \E rank \in [Clients -> Nat] : List(rank)

-----------------------------------------------------------------------------
(***************************************************************************)
(* What the operations on the list and on the descriptors do               *)
(***************************************************************************)

\* A finite set of integers that is not empty has a maximum: otherwise take a
\* smallest one that has none, and leave out an element.
LEMMA MaxOfSet ==
  ASSUME NEW S \in SUBSET Int, IsFiniteSet(S), S # {}
  PROVE  Max(S) \in S /\ \A y \in S : Max(S) >= y
<1> DEFINE HasMax(T) == \E x \in T : \A y \in T : x >= y
           Bad == {T \in FiniteSubsetsOf(S) : T # {} /\ ~HasMax(T)}
<1>1. SUFFICES Bad = {}
  <2>1. S \in FiniteSubsetsOf(S)
    BY DEF FiniteSubsetsOf
  <2>2. HasMax(S)
    BY <1>1, <2>1
  <2>3. QED BY <2>2 DEF Max
<1>2. SUFFICES ASSUME Bad # {} PROVE FALSE
  OBVIOUS
<1>3. PICK T \in Bad : \A U \in Bad : ~(<<U, T>> \in StrictSubsetOrdering(S))
  <2>1. Bad \subseteq FiniteSubsetsOf(S)
    OBVIOUS
  <2> HIDE DEF Bad
  <2>2. QED BY <1>2, <2>1, FS_StrictSubsetOrderingWellFounded, WFMin
<1>4. PICK x \in T : TRUE
  OBVIOUS
<1>5. T \ {x} \in FiniteSubsetsOf(S) /\ T \ {x} # T
  BY FS_RemoveElement DEF FiniteSubsetsOf
<1>6. <<T \ {x}, T>> \in StrictSubsetOrdering(S)
  BY <1>5 DEF StrictSubsetOrdering, FiniteSubsetsOf
<1>7. T \ {x} \notin Bad
  BY <1>3, <1>6
<1>8. CASE T \ {x} = {}
  <2>1. \A y \in T : y = x
    BY <1>8
  <2>2. x \in Int
    BY DEF FiniteSubsetsOf
  <2>3. HasMax(T)
    BY <2>1, <2>2
  <2>4. QED BY <2>3
<1>9. CASE T \ {x} # {}
  <2>1. HasMax(T \ {x})
    BY <1>5, <1>7, <1>9
  <2>2. PICK m \in T \ {x} : \A y \in T \ {x} : m >= y
    BY <2>1
  <2>3. T \subseteq Int
    BY DEF FiniteSubsetsOf
  <2>4. HasMax(T)
    BY <1>4, <2>2, <2>3
  <2>5. QED BY <2>4
<1>10. QED BY <1>8, <1>9

\* rfbClientConnectionGone takes the record out and leaves the rest in order.
LEMMA GoneKeepsOrder ==
  ASSUME TypeOK, NEW rank \in [Clients -> Nat], Ordered(rank), NEW c \in Live,
         rfbClientConnectionGone(c)
  PROVE  Live' = Live \ {c} /\ Ordered(rank)'
<1> USE DEF rfbClientConnectionGone
<1>1. Live' = Live \ {c}
  BY DEF Live, TypeOK
<1>2. \A d \in Live : d \in Clients /\ rank[d] \in Nat
  BY DEF Live
<1>3. \A d \in Live : /\ next'[d] = IF d = prev[c] THEN next[c] ELSE next[d]
                      /\ prev'[d] = IF d = next[c] THEN prev[c] ELSE prev[d]
  BY <1>2
<1>4. clientHead' = Nil => Live' = {}
  BY <1>1, <1>2, NilAssumption DEF Ordered
<1>5. clientHead' # Nil =>
        clientHead' \in Live' /\ \A d \in Live' : rank[clientHead'] <= rank[d]
  BY <1>1, <1>2, NilAssumption DEF Ordered
<1>6. \A a, b \in Live' : rank[a] = rank[b] => a = b
  BY <1>1 DEF Ordered
<1>7. ASSUME NEW d \in Live'
      PROVE  /\ next'[d] = Nil => \A e \in Live' : rank[e] <= rank[d]
             /\ next'[d] # Nil =>
                  /\ next'[d] \in Live' /\ prev'[next'[d]] = d /\ rank[d] < rank[next'[d]]
                  /\ \A e \in Live' : rank[e] <= rank[d] \/ rank[next'[d]] <= rank[e]
  <2>1. CASE d = prev[c]
    <3>1. d \in Live /\ d # c /\ next[d] = c /\ next'[d] = next[c] /\ rank[d] < rank[c]
      BY <1>1, <1>3, <2>1, NilAssumption DEF Ordered, Live
    <3>2. \A e \in Live' : rank[e] <= rank[d] \/ rank[c] < rank[e]
      <4>1. \A e \in Live : rank[e] <= rank[d] \/ rank[c] <= rank[e]
        BY <3>1, NilAssumption DEF Ordered, Live
      <4>2. \A e \in Live' : rank[e] # rank[c]
        BY <1>1 DEF Ordered
      <4>3. QED BY <1>1, <1>2, <4>1, <4>2
    <3>3. CASE next[c] = Nil
      BY <1>1, <1>2, <3>1, <3>2, <3>3 DEF Ordered
    <3>4. CASE next[c] # Nil
      <4>1. /\ next[c] \in Live /\ next[c] # c /\ rank[c] < rank[next[c]]
            /\ \A e \in Live : rank[e] <= rank[c] \/ rank[next[c]] <= rank[e]
        BY <1>2, <3>4 DEF Ordered
      <4>2. next[c] # d /\ prev'[next[c]] = d
        BY <1>2, <1>3, <2>1, <3>1, <4>1
      <4>3. QED BY <1>1, <1>2, <3>1, <3>2, <3>4, <4>1, <4>2
    <3>5. QED BY <3>3, <3>4
  <2>2. CASE d # prev[c]
    <3>1. d \in Live /\ d # c /\ next'[d] = next[d]
      BY <1>1, <1>3, <2>2
    <3>2. CASE next[d] = Nil
      BY <1>1, <3>1, <3>2 DEF Ordered
    <3>3. CASE next[d] # Nil
      <4>1. next[d] \in Live /\ next[d] # c /\ prev[next[d]] = d
        BY <2>2, <3>1, <3>3 DEF Ordered
      <4>2. next[d] # next[c]
        BY <3>1, <3>3, <4>1 DEF Ordered
      <4>3. prev'[next[d]] = d
        BY <1>3, <4>1, <4>2
      <4>4. QED BY <1>1, <3>1, <3>3, <4>1, <4>3 DEF Ordered
    <3>4. QED BY <3>2, <3>3
  <2>3. QED BY <2>1, <2>2
<1>8. ASSUME NEW d \in Live'
      PROVE  /\ prev'[d] # Nil => prev'[d] \in Live' /\ next'[prev'[d]] = d
             /\ prev'[d] = Nil <=> clientHead' = d
  <2>1. CASE d = next[c]
    BY <1>1, <1>2, <1>3, <2>1, NilAssumption DEF Ordered
  <2>2. CASE d # next[c]
    BY <1>1, <1>2, <1>3, <2>2, NilAssumption DEF Ordered
  <2>3. QED BY <2>1, <2>2
<1>9. QED BY <1>1, <1>4, <1>5, <1>6, <1>7, <1>8 DEF Ordered

\* The ranks after c has become the head of the list.
Pushed(rank, c) == [d \in Clients |-> IF d = c THEN 0 ELSE rank[d] + 1]

\* rfbNewTCPOrUDPClient puts the record in front of the others.
LEMMA LinkKeepsOrder ==
  ASSUME TypeOK, NEW rank \in [Clients -> Nat], Ordered(rank),
         NEW c \in Clients, c \notin Live, NEW fd, LinkClient(c, fd)
  PROVE  /\ Live' = Live \cup {c}
         /\ Pushed(rank, c) \in [Clients -> Nat]
         /\ Ordered(Pushed(rank, c))'
<1> USE DEF LinkClient
<1> DEFINE r == Pushed(rank, c)
<1>1. Live' = Live \cup {c}
  BY DEF Live, TypeOK
<1>2. r \in [Clients -> Nat] /\ r[c] = 0
  BY DEF Pushed
<1>3. \A d \in Live : d \in Clients /\ rank[d] \in Nat /\ r[d] = rank[d] + 1 /\ d # c
  BY DEF Live, Pushed
<1>4. /\ \A d \in Live : next'[d] = next[d]
      /\ next'[c] = clientHead
  BY <1>3 DEF TypeOK
<1>5. /\ \A d \in Live : prev'[d] = IF d = clientHead THEN c ELSE prev[d]
      /\ prev'[c] = Nil
  <2>1. \A d \in Clients : prev'[d] = CASE d = c -> Nil
                                        [] d = clientHead -> c
                                        [] OTHER -> prev[d]
    BY Zenon
  <2>2. prev'[c] = Nil
    <3>1. clientHead # c
      BY NilAssumption DEF Ordered
    <3>2. QED BY <2>1, <3>1
  <2>3. ASSUME NEW d \in Live PROVE prev'[d] = IF d = clientHead THEN c ELSE prev[d]
    BY <1>3, <2>1
  <2>4. QED BY <2>2, <2>3
<1>6. clientHead' = c /\ c # Nil
  BY NilAssumption
<1> HIDE DEF r, LinkClient
<1>7. \A d \in Live' : r[c] <= r[d]
  BY <1>1, <1>2, <1>3
<1>8. \A a, b \in Live' : r[a] = r[b] => a = b
  BY <1>1, <1>2, <1>3 DEF Ordered
<1>9. ASSUME NEW d \in Live'
      PROVE  /\ next'[d] = Nil => \A e \in Live' : r[e] <= r[d]
             /\ next'[d] # Nil =>
                  /\ next'[d] \in Live' /\ prev'[next'[d]] = d /\ r[d] < r[next'[d]]
                  /\ \A e \in Live' : r[e] <= r[d] \/ r[next'[d]] <= r[e]
  <2>1. CASE d = c
    BY <1>1, <1>2, <1>3, <1>4, <1>5, <2>1 DEF Ordered
  <2>2. CASE d # c
    BY <1>1, <1>2, <1>3, <1>4, <1>5, <2>2 DEF Ordered
  <2>3. QED BY <2>1, <2>2
<1>10. ASSUME NEW d \in Live'
       PROVE  /\ prev'[d] # Nil => prev'[d] \in Live' /\ next'[prev'[d]] = d
              /\ prev'[d] = Nil <=> clientHead' = d
  BY <1>1, <1>3, <1>4, <1>5, <1>6 DEF Ordered
<1>11. QED BY <1>1, <1>2, <1>6, <1>7, <1>8, <1>9, <1>10 DEF Ordered, r

\* rfbCloseClient gives back the client's descriptor, and only this one.
LEMMA CloseKeepsSockets ==
  ASSUME TypeOK, Sockets, NEW c \in Open, rfbCloseClient(c), Open' = Open \ {c}
  PROVE  /\ Sockets'
         /\ allFds' \subseteq Fds /\ maxFd' \in Fds \cup {0}
         /\ sock' \in [Clients -> Fds \cup {-1}]
<1> USE DEF rfbCloseClient
<1> DEFINE rest == allFds \ {sock[c]}
<1>1. c \in Clients /\ \A d \in Open : d \in Clients /\ sock[d] \in Nat
  BY FdsAssumption DEF Open, Live, TypeOK
<1>2. \A d \in Open' : d \in Open /\ d # c /\ sock'[d] = sock[d]
  BY <1>1 DEF TypeOK
<1>3. /\ Max(rest \cup {0}) \in rest \cup {0}
      /\ \A y \in rest \cup {0} : Max(rest \cup {0}) >= y
  <2>1. rest \cup {0} \in SUBSET Int /\ rest \cup {0} # {}
    <3>1. rest \subseteq Fds /\ Fds \subseteq Nat
      BY FdsAssumption DEF TypeOK
    <3> HIDE DEF rest
    <3>2. QED BY <3>1
  <2>2. IsFiniteSet(rest)
    BY FdsAssumption, FS_Subset DEF TypeOK
  <2>3. IsFiniteSet(rest \cup {0})
    BY <2>2, FS_AddElement
  <2> HIDE DEF rest
  <2>4. QED BY <2>1, <2>3, MaxOfSet
<1>4. maxFd' = IF sock[c] = maxFd THEN Max(rest \cup {0}) ELSE maxFd
  OBVIOUS
<1>5. allFds' = rest /\ rest \subseteq allFds /\ rest \subseteq Int
  <2>1. allFds' = rest /\ rest \subseteq allFds
    OBVIOUS
  <2>2. allFds \subseteq Fds /\ Fds \subseteq Nat
    BY FdsAssumption DEF TypeOK
  <2>3. allFds \subseteq Int
    BY <2>2
  <2>4. QED BY <2>1, <2>3
<1>6. maxFd' \in Fds \cup {0} /\ allFds' \subseteq Fds /\ sock' \in [Clients -> Fds \cup {-1}]
  BY <1>3, <1>4, <1>5 DEF TypeOK
<1>7. \A d \in Open' : sock'[d] \in rest
  BY <1>1, <1>2 DEF Sockets
<1> HIDE DEF rest
<1>8. \A d \in Open' : sock'[d] <= maxFd'
  <2>1. CASE sock[c] = maxFd
    BY <1>3, <1>4, <1>5, <1>7, <2>1
  <2>2. CASE sock[c] # maxFd
    BY <1>2, <1>4, <2>2 DEF Sockets
  <2>3. QED BY <2>1, <2>2
<1>9. /\ \A a, b \in Open' : sock'[a] = sock'[b] => a = b
      /\ \A d \in Open', l \in Listeners : sock'[d] # listenSock'[l]
  BY <1>2 DEF Sockets
<1>10. /\ \A l \in Listeners : listenSock'[l] # -1 => listenSock'[l] \in allFds'
       /\ \A k, l \in Listeners : listenSock'[l] # -1 /\ listenSock'[k] = listenSock'[l] => k = l
  BY DEF Sockets
<1>11. ASSUME NEW fd \in allFds'
       PROVE  (\E d \in Open' : fd = sock'[d]) \/ \E l \in Listeners : fd = listenSock'[l]
  <2>1. CASE \E l \in Listeners : fd = listenSock[l]
    BY <2>1
  <2>2. CASE \E d \in Open : fd = sock[d]
    <3>1. PICK d \in Open : fd = sock[d]
      BY <2>2
    <3>2. d # c
      BY <3>1
    <3>3. d \in Open' /\ fd = sock'[d]
      BY <1>2, <3>1, <3>2
    <3>4. QED BY <3>3
  <2>3. QED BY <2>1, <2>2 DEF Sockets
<1>12. QED BY <1>5, <1>6, <1>7, <1>8, <1>9, <1>10, <1>11 DEF Sockets

\* A new client gets a descriptor that nobody has.
LEMMA LinkKeepsSockets ==
  ASSUME TypeOK, Sockets, NEW c \in Clients, c \notin Live, NEW fd \in UnusedFds,
         LinkClient(c, fd)
  PROVE  /\ Open' = Open \cup {c} /\ Sockets'
         /\ allFds' \subseteq Fds /\ maxFd' \in Fds \cup {0}
         /\ sock' \in [Clients -> Fds \cup {-1}]
<1> USE DEF LinkClient
<1>1. fd \in Fds /\ fd \in Nat \ {0} /\ fd \notin allFds /\ \A l \in Listeners : fd # listenSock[l]
  BY FdsAssumption DEF UnusedFds
<1>2. maxFd \in Nat /\ \A d \in Open : d \in Clients /\ d # c /\ sock[d] \in Nat
  BY FdsAssumption DEF Open, Live, TypeOK
<1>3. sock' \in [Clients -> Fds \cup {-1}] /\ sock'[c] = fd /\ \A d \in Open : sock'[d] = sock[d]
  BY <1>1, <1>2 DEF TypeOK
<1>4. Open' = Open \cup {c}
  BY <1>1 DEF Open, Live, TypeOK
<1>5. maxFd' \in {fd, maxFd} /\ maxFd' >= fd /\ maxFd' >= maxFd
  <2>1. {fd, maxFd} \in SUBSET Int /\ {fd, maxFd} # {}
    BY <1>1, <1>2
  <2>2. IsFiniteSet({fd} \cup {maxFd}) /\ {fd} \cup {maxFd} = {fd, maxFd}
    BY FS_Singleton, FS_AddElement
  <2>3. QED BY <2>1, <2>2, MaxOfSet
<1>6. allFds' \subseteq Fds /\ maxFd' \in Fds \cup {0}
  BY <1>1, <1>5 DEF TypeOK
<1>7. allFds' = allFds \cup {fd} /\ UNCHANGED listenSock
  OBVIOUS
<1> HIDE DEF LinkClient
<1>8. /\ \A d \in Open' : sock'[d] \in allFds'
      /\ \A d \in Open' : sock'[d] <= maxFd'
  BY <1>1, <1>2, <1>3, <1>4, <1>5, <1>7 DEF Sockets
<1>9. \A a, b \in Open' : sock'[a] = sock'[b] => a = b
  BY <1>1, <1>3, <1>4 DEF Sockets
<1>10. \A d \in Open', l \in Listeners : sock'[d] # listenSock'[l]
  BY <1>1, <1>3, <1>4, <1>7 DEF Sockets
<1>11. /\ \A l \in Listeners : listenSock'[l] # -1 => listenSock'[l] \in allFds'
       /\ \A k, l \in Listeners : listenSock'[l] # -1 /\ listenSock'[k] = listenSock'[l] => k = l
  BY <1>7 DEF Sockets
<1>12. \A f \in allFds' : (\E d \in Open' : f = sock'[d]) \/ \E l \in Listeners : f = listenSock'[l]
  BY <1>3, <1>4, <1>7 DEF Sockets
<1>13. QED BY <1>3, <1>4, <1>6, <1>8, <1>9, <1>10, <1>11, <1>12 DEF Sockets

\* The step of an iterator leaves behind the record it stood on and no other.
LEMMA StepAhead ==
  ASSUME NEW rank \in [Clients -> Nat], Ordered(rank), cur \in Live, NEW d \in Live, d # cur
  PROVE  rank[cur] <= rank[d] <=> next[cur] # Nil /\ rank[next[cur]] <= rank[d]
<1>1. rank[cur] \in Nat /\ rank[d] \in Nat /\ rank[d] # rank[cur]
  BY DEF Live, Ordered
<1>2. CASE next[cur] = Nil
  BY <1>1, <1>2 DEF Ordered
<1>3. CASE next[cur] # Nil
  <2>1. next[cur] \in Live /\ rank[next[cur]] \in Nat /\ rank[cur] < rank[next[cur]]
    BY <1>3 DEF Ordered, Live
  <2>2. rank[d] <= rank[cur] \/ rank[next[cur]] <= rank[d]
    BY <1>3 DEF Ordered
  <2>3. QED BY <1>1, <1>3, <2>1, <2>2
<1>4. QED BY <1>2, <1>3

\* A scan that begins has all records still to visit.
LEMMA HeadAhead ==
  ASSUME NEW rank, Ordered(rank)', cur' = clientHead'
  PROVE  Ahead(rank)' = Live' /\ cur' \in Live' \cup {Nil}
BY DEF Ordered, Ahead

-----------------------------------------------------------------------------
(***************************************************************************)
(* The inductive invariant                                                 *)
(***************************************************************************)

\* Before the server is started the list is empty.
LEMMA InitInv == Init => IInv
<1> SUFFICES ASSUME Init PROVE IInv
  OBVIOUS
<1> USE DEF Init
<1>1. Live = {} /\ Open = {}
  BY DEF Live, Open
<1>2. TypeOK
  BY DEF TypeOK
<1>3. Iterators /\ Collected /\ Reported /\ PointerHolderLives
  BY <1>1 DEF Iterators, WorkerOnLiveRecord, Collected, Reported, PointerHolderLives
<1>4. WaitingUnused /\ Watched /\ StillReady
  BY DEF WaitingUnused, Watched, StillReady
<1>5. List([c \in Clients |-> 0]) /\ [c \in Clients |-> 0] \in [Clients -> Nat]
  BY <1>1 DEF List, Ordered, ReadAhead, ClosedAhead
<1>6. QED BY <1>2, <1>3, <1>4, <1>5 DEF IInv, State

\* What depends on the list and the sockets alone.
LEMMA Untouched ==
  ASSUME State, UNCHANGED <<listVars, socketVars>>
  PROVE  /\ Live' = Live /\ Open' = Open
         /\ Reported' /\ PointerHolderLives' /\ (Sockets => Sockets')
         /\ \A rank : Ordered(rank) => Ordered(rank)'
<1> USE DEF listVars, socketVars
<1>1. Live' = Live
  BY DEF Live
<1>2. Open' = Open
  BY <1>1 DEF Open
<1>3. Reported' /\ PointerHolderLives'
  BY <1>1 DEF State, Reported, PointerHolderLives
<1>4. Sockets => Sockets'
  BY <1>2 DEF Sockets
<1>5. ASSUME NEW rank PROVE Ordered(rank) => Ordered(rank)'
  BY <1>1 DEF Ordered
<1>6. QED BY <1>1, <1>2, <1>3, <1>4, <1>5

\* The network makes what was readable no less so.
LEMMA NetworkInv ==
  ASSUME State, NEW rank \in [Clients -> Nat], List(rank), Network
  PROVE  State' /\ List(rank)'
<1>1. UNCHANGED <<listVars, socketVars>> /\ UNCHANGED threadVars
  BY DEF Network, Connect, Speak, HangUp
<1>2. /\ Live' = Live /\ Open' = Open
      /\ Reported' /\ PointerHolderLives' /\ (Sockets => Sockets') /\ Ordered(rank)'
  BY <1>1, Untouched DEF List
<1>3. /\ backlog' \in [Listeners -> SUBSET Clients]
      /\ wire' \in [Clients -> {"idle", "data", "eof"}]
  BY DEF Network, Connect, Speak, HangUp, State, TypeOK
<1>4. \A c \in Live : wire[c] # "idle" => wire'[c] # "idle"
  BY DEF Network, Connect, Speak, HangUp, State, TypeOK, Live
<1>5. \A l \in Listeners : backlog[l] \subseteq backlog'[l]
  BY DEF Network, Connect, Speak, HangUp, State, TypeOK
<1>6. TypeOK'
  BY <1>1, <1>3 DEF State, TypeOK, listVars, socketVars, threadVars
<1>7. WaitingUnused'
  <2>1. CASE UNCHANGED backlog
    BY <1>1, <2>1 DEF State, WaitingUnused, listVars
  <2>2. ASSUME NEW c \in Clients, NEW l \in Listeners, Connect(c, l)
        PROVE  WaitingUnused'
    <3>1. /\ mem[c] \in {"unused", "freed"} /\ mem' = mem
          /\ \A k \in Listeners : /\ c \notin backlog[k]
                                  /\ backlog'[k] = IF k = l THEN backlog[k] \cup {c} ELSE backlog[k]
      BY <1>1, <2>2 DEF Connect, Waiting, State, TypeOK, listVars
    <3>2. QED BY <3>1 DEF State, WaitingUnused
  <2>3. QED BY <2>1, <2>2 DEF Network, Speak, HangUp
<1>8. Iterators' /\ Collected' /\ Watched'
  BY <1>1, <1>2 DEF State, Iterators, WorkerOnLiveRecord, Collected, Watched, listVars, threadVars
<1>9. StillReady'
  BY <1>1, <1>2, <1>4, <1>5, ListenersAssumption
     DEF State, StillReady, listVars, socketVars, threadVars, Open
<1>10. Ahead(rank)' = Ahead(rank)
  BY <1>1, <1>2 DEF Ahead, threadVars
<1>11. ReadAhead(rank)' /\ ClosedAhead(rank)'
  BY <1>1, <1>2, <1>4, <1>10 DEF List, ReadAhead, ClosedAhead, Ahead, threadVars, socketVars
<1>12. QED BY <1>2, <1>6, <1>7, <1>8, <1>9, <1>11 DEF State, List

\* The list and the sockets, and with them the backlog and the wire, stay as
\* they are; what is left to show for such a step is about pc, fds and cur.
LEMMA QuietStep ==
  ASSUME State, NEW rank \in [Clients -> Nat], List(rank),
         UNCHANGED <<listVars, socketVars, netVars>>,
         /\ pc' \in {"loop", "select", "accept", "accept6", "read", "update",
                     "exited", "shutdown", "crashed"}
         /\ pc \notin {"off", "crashed"}
         /\ fds' \subseteq Fds /\ cur' \in Clients \cup {Nil} /\ mTerminated' \in BOOLEAN,
         Iterators', Collected', StillReady', ReadAhead(rank)', ClosedAhead(rank)'
  PROVE  State' /\ List(rank)'
<1>1. Reported' /\ PointerHolderLives' /\ (Sockets => Sockets') /\ Ordered(rank)'
  BY Untouched DEF List
<1>2. TypeOK'
  BY DEF State, TypeOK, listVars, socketVars, netVars
<1>3. WaitingUnused' /\ Watched'
  BY <1>1 DEF State, WaitingUnused, Watched, listVars, netVars
<1>4. QED BY <1>1, <1>2, <1>3 DEF State, List

\* The steps of the worker between the scans.
LEMMA LoopInv ==
  ASSUME State, NEW rank \in [Clients -> Nat], List(rank),
         WorkerLoop \/ ReadDone \/ UpdateDone \/ SelectReady
  PROVE  State' /\ List(rank)'
<1> USE DEF WorkerLoop, ReadDone, UpdateDone, SelectReady, listVars, socketVars, netVars
<1>1. Live' = Live /\ Open' = Open
  BY Untouched
<1>2. Iterators' /\ ReadAhead(rank)' /\ ClosedAhead(rank)'
  BY DEF Iterators, WorkerOnLiveRecord, ReadAhead, ClosedAhead
<1>3. Collected'
  <2>1. CASE WorkerLoop \/ ReadDone \/ SelectReady
    BY <1>1, <2>1 DEF State, Collected
  <2>2. CASE UpdateDone
    <3>1. Ahead(rank) = {}
      BY <2>2 DEF Ahead
    <3>2. Live \subseteq Open /\ Open \subseteq Live
      BY <2>2, <3>1 DEF List, ClosedAhead, Open
    <3>3. QED BY <1>1, <2>2, <3>2 DEF Collected
  <2>3. QED BY <2>1, <2>2
<1>4. StillReady'
  <2>1. CASE WorkerLoop \/ ReadDone \/ UpdateDone
    BY <2>1 DEF StillReady
  <2>2. CASE SelectReady
    <3>1. Sockets
      BY <2>2 DEF State, Watched
    <3>2. \A fd \in fds' : fd \in allFds /\ fd \in Nat /\ fd \in Readable
      BY <2>2, FdsAssumption DEF Ready, State, TypeOK
    <3>3. ASSUME NEW c \in Open, sock[c] \in fds' PROVE wire[c] # "idle"
      <4>1. sock[c] \in Readable /\ \A l \in Listeners : sock[c] # listenSock[l]
        BY <3>1, <3>2, <3>3 DEF Sockets
      <4>2. PICK d \in Live : wire[d] # "idle" /\ sock[d] = sock[c]
        BY <4>1 DEF Readable
      <4>3. d \in Open
        BY <4>2 DEF Open
      <4>4. QED BY <3>1, <4>2, <4>3 DEF Sockets
    <3>4. ASSUME NEW l \in Listeners, listenSock[l] \in fds' PROVE backlog[l] # {}
      <4>1. listenSock[l] \in Readable /\ listenSock[l] # -1
        BY <3>2, <3>4
      <4>2. \A c \in Live : sock[c] # listenSock[l]
        BY <3>1, <4>1 DEF Sockets, Open
      <4>3. PICK k \in Listeners : backlog[k] # {} /\ listenSock[k] = listenSock[l]
        BY <4>1, <4>2 DEF Readable
      <4>4. QED BY <3>1, <4>1, <4>3 DEF Sockets
    <3>5. QED BY <1>1, <2>2, <3>2, <3>3, <3>4 DEF StillReady
  <2>3. QED BY <2>1, <2>2
<1>5. /\ fds' \subseteq Fds /\ cur' \in Clients \cup {Nil} /\ mTerminated' \in BOOLEAN
  BY DEF Ready, State, TypeOK
<1>6. QED BY <1>2, <1>3, <1>4, <1>5, QuietStep

\* The scans begin, with every record ahead of them.
LEMMA ScanBeginsInv ==
  ASSUME State, NEW rank \in [Clients -> Nat], List(rank),
         \/ SelectTimeout
         \/ \E l \in Listeners : NothingToAccept(l)
         \/ ShutdownBegins
  PROVE  State' /\ List(rank)'
<1> USE DEF SelectTimeout, NothingToAccept, ToUpdate, AfterAccept, ShutdownBegins,
            listVars, socketVars, netVars
<1>1. Live' = Live /\ Open' = Open /\ Ordered(rank)'
  BY Untouched DEF List
<1>2. CASE pc' = "accept6"
  <2>1. pc = "accept" /\ UNCHANGED <<listVars, socketVars, netVars>> /\ UNCHANGED <<fds, cur, mTerminated>>
    BY <1>2 DEF AcceptStage
  <2>2. Iterators' /\ Collected' /\ ReadAhead(rank)' /\ ClosedAhead(rank)'
    BY <1>2 DEF Iterators, WorkerOnLiveRecord, Collected, ReadAhead, ClosedAhead
  <2>3. StillReady'
    BY <1>1, <1>2, <2>1 DEF State, StillReady
  <2>4. QED BY <1>2, <2>1, <2>2, <2>3, QuietStep DEF State, TypeOK
<1>3. CASE pc' # "accept6"
  <2>1. /\ cur' = clientHead' /\ UNCHANGED <<listVars, socketVars, netVars>>
        /\ UNCHANGED mTerminated
        /\ \/ pc' = "update"
           \/ pc \in {"accept", "accept6"} /\ pc' = "read" /\ UNCHANGED fds
           \/ pc = "exited" /\ pc' = "shutdown" /\ UNCHANGED fds
    BY <1>3 DEF AcceptStage
  <2>2. Ahead(rank)' = Live' /\ cur' \in Live' \cup {Nil}
    BY <1>1, <2>1, HeadAhead
  <2>3. Iterators' /\ Collected' /\ ClosedAhead(rank)' /\ StillReady'
    BY <1>1, <2>1, <2>2 DEF Iterators, WorkerOnLiveRecord, State, Collected, ClosedAhead, StillReady
  <2>4. ReadAhead(rank)'
    <3>1. CASE pc' = "read"
      <4>1. \A c \in Open : sock[c] \in fds => wire[c] # "idle"
        BY <2>1, <3>1 DEF State, StillReady
      <4>2. \A c \in Live : sock[c] \in fds => c \in Open
        BY FdsAssumption DEF Open, State, TypeOK
      <4>3. QED BY <1>1, <2>1, <2>2, <3>1, <4>1, <4>2 DEF ReadAhead
    <3>2. QED BY <3>1 DEF ReadAhead
  <2>5. fds' \subseteq Fds /\ cur' \in Clients \cup {Nil} /\ mTerminated' \in BOOLEAN
    BY <2>1 DEF State, TypeOK
  <2>6. pc \notin {"off", "crashed"}
    BY DEF AcceptStage
  <2>7. QED BY <2>1, <2>3, <2>4, <2>5, <2>6, QuietStep
<1>4. QED BY <1>2, <1>3

\* rfbClientIteratorNext.
LEMMA IteratorInv ==
  ASSUME State, NEW rank \in [Clients -> Nat], List(rank), ReadNothing \/ SkipClosed
  PROVE  State' /\ List(rank)'
<1> USE DEF ReadNothing, SkipClosed, listVars, socketVars, netVars
<1>1. Live' = Live /\ Open' = Open
  BY Untouched
<1>2. pc = "read"
  <2>1. pc = "shutdown" => cur \in Live /\ Live = Open
    BY DEF State, Iterators, Collected, List, Ordered
  <2>2. QED BY <2>1 DEF Open
<1>3. cur \in Live /\ pc' = "read" /\ cur' = next[cur] /\ UNCHANGED <<fds, mTerminated>>
  BY <1>2 DEF State, Iterators, WorkerOnLiveRecord
<1>4. cur' \in Live \cup {Nil}
  BY <1>3 DEF List, Ordered
<1>5. Ahead(rank)' \subseteq Ahead(rank)
  <2>1. ASSUME NEW d \in Ahead(rank)' PROVE d \in Ahead(rank)
    <3>1. CASE d = cur
      BY <1>1, <1>3, <3>1 DEF Ahead, Live
    <3>2. CASE d # cur
      BY <1>1, <1>3, <3>2, StepAhead, NilAssumption DEF Ahead, List, Live
    <3>3. QED BY <3>1, <3>2
  <2>2. QED BY <2>1
<1>6. Iterators' /\ Collected' /\ StillReady' /\ ClosedAhead(rank)'
  BY <1>1, <1>3, <1>4 DEF Iterators, WorkerOnLiveRecord, Collected, StillReady, ClosedAhead
<1>7. ReadAhead(rank)'
  BY <1>3, <1>5 DEF List, ReadAhead
<1>8. fds' \subseteq Fds /\ cur' \in Clients \cup {Nil} /\ mTerminated' \in BOOLEAN
  BY <1>3, <1>4 DEF State, TypeOK, Live
<1>9. QED BY <1>2, <1>3, <1>6, <1>7, <1>8, QuietStep

\* stopServer sets a flag; the shutdown goes on from a record it has freed.
LEMMA StopInv ==
  ASSUME State, NEW rank \in [Clients -> Nat], List(rank), StopServer \/ NextOfFreed
  PROVE  State' /\ List(rank)'
<1> USE DEF StopServer, NextOfFreed, listVars, socketVars, netVars
<1>1. Live' = Live /\ Open' = Open
  BY Untouched
<1>2. CASE StopServer
  <2>1. UNCHANGED <<pc, fds, cur, clientHead, next, sock, wire, backlog, listenSock, allFds>>
    BY <1>2
  <2>2. Ahead(rank)' = Ahead(rank)
    BY <1>1, <2>1 DEF Ahead
  <2>3. Iterators' /\ Collected' /\ StillReady'
    BY <1>1, <2>1 DEF State, Iterators, WorkerOnLiveRecord, Collected, StillReady
  <2>4. ReadAhead(rank)' /\ ClosedAhead(rank)'
    BY <1>1, <2>1, <2>2 DEF List, ReadAhead, ClosedAhead
  <2>5. /\ pc' \in {"loop", "select", "accept", "accept6", "read", "update",
                    "exited", "shutdown", "crashed"}
        /\ pc \notin {"off", "crashed"}
        /\ fds' \subseteq Fds /\ cur' \in Clients \cup {Nil} /\ mTerminated' \in BOOLEAN
    BY <1>2 DEF State, TypeOK
  <2>6. QED BY <1>2, <2>3, <2>4, <2>5, QuietStep
<1>3. CASE NextOfFreed
  <2>1. Iterators' /\ Collected' /\ StillReady' /\ ReadAhead(rank)' /\ ClosedAhead(rank)'
    BY <1>1, <1>3 DEF State, Iterators, WorkerOnLiveRecord, Collected, StillReady, ReadAhead, ClosedAhead
  <2>2. fds' \subseteq Fds /\ cur' \in Clients \cup {Nil} /\ mTerminated' \in BOOLEAN
    BY <1>3 DEF State, TypeOK, Iterators
  <2>3. QED BY <1>3, <2>1, <2>2, QuietStep
<1>4. QED BY <1>2, <1>3

\* A screen is set up while there are no records.
LEMMA StartInv ==
  ASSUME State, NEW rank \in [Clients -> Nat], List(rank), StartServer
  PROVE  State' /\ List(rank)'
<1> USE DEF StartServer
<1>1. Live' = {} /\ Open' = {}
  BY DEF State, Collected, Live, Open
<1>2. PICK l4 \in UnusedFds \cup {-1}, l6 \in UnusedFds \cup {-1} :
        /\ l4 = -1 \/ 6 \notin Listeners => l6 = -1
        /\ l4 = l6 => l4 = -1
        /\ listenSock' = [l \in Listeners |-> IF l = 4 THEN l4 ELSE l6]
        /\ allFds' = {l4, l6} \ {-1}
        /\ maxFd' = Max({l4, l6, 0})
  OBVIOUS
<1>3. l4 \in Fds \cup {-1} /\ l6 \in Fds \cup {-1}
  BY DEF UnusedFds
<1>4. maxFd' \in Fds \cup {0}
  <2>1. {l4, l6, 0} \in SUBSET Int /\ {l4, l6, 0} # {}
    BY <1>3, FdsAssumption
  <2>2. IsFiniteSet({l4} \cup {l6} \cup {0}) /\ {l4} \cup {l6} \cup {0} = {l4, l6, 0}
    BY FS_Singleton, FS_AddElement
  <2>3. maxFd' \in {l4, l6, 0} /\ maxFd' >= 0
    BY <1>2, <2>1, <2>2, MaxOfSet
  <2>4. QED BY <1>3, <2>3
<1>5. allFds' \subseteq Fds /\ listenSock' \in [Listeners -> Fds \cup {-1}]
  BY <1>2, <1>3
<1>6. TypeOK'
  BY <1>4, <1>5 DEF State, TypeOK
<1>7. Iterators' /\ Collected' /\ StillReady'
  BY <1>1 DEF Iterators, WorkerOnLiveRecord, Collected, StillReady
<1>8. Reported' /\ PointerHolderLives' /\ WaitingUnused'
  <2>1. Live = {}
    BY DEF State, Collected
  <2>2. QED BY <1>1, <2>1 DEF State, Reported, PointerHolderLives, WaitingUnused
<1>9. Watched'
  BY <1>1, <1>2, ListenersAssumption DEF Watched, Sockets
<1>10. List(rank)'
  BY <1>1 DEF List, Ordered, ReadAhead, ClosedAhead
<1>11. QED BY <1>6, <1>7, <1>8, <1>9, <1>10 DEF State

\* The shutdown ends when no record is left.
LEMMA ShutdownSocketsInv ==
  ASSUME State, NEW rank \in [Clients -> Nat], List(rank), ShutdownSockets
  PROVE  State' /\ List(rank)'
<1> USE DEF ShutdownSockets, listVars
<1>1. Live' = Live /\ Live = {} /\ Open' = {}
  BY DEF State, Iterators, List, Ordered, Live, Open
<1>2. TypeOK'
  BY DEF State, TypeOK
<1>3. Iterators' /\ Collected' /\ StillReady' /\ Watched'
  BY <1>1 DEF Iterators, WorkerOnLiveRecord, Collected, StillReady, Watched
<1>4. Reported' /\ PointerHolderLives' /\ WaitingUnused'
  BY <1>1 DEF State, Reported, PointerHolderLives, WaitingUnused
<1>5. List(rank)'
  BY <1>1 DEF List, Ordered, ReadAhead, ClosedAhead
<1>6. QED BY <1>2, <1>3, <1>4, <1>5 DEF State

\* A client that is closed, if it is not yet, and freed.
LEMMA Burial ==
  ASSUME State, NEW rank \in [Clients -> Nat], List(rank), pc \notin {"off", "crashed"},
         cur \in Live, rfbClientConnectionGone(cur), UNCHANGED netVars,
         IF sock[cur] = -1 THEN UNCHANGED socketVars ELSE rfbCloseClient(cur),
         /\ pc' \in {"update", "freed"} /\ fds' \subseteq Fds
         /\ cur' \in Clients \cup {Nil} /\ mTerminated' \in BOOLEAN
  PROVE  /\ Live' = Live \ {cur} /\ Open' = Open \ {cur} /\ Ordered(rank)'
         /\ TypeOK' /\ Reported' /\ PointerHolderLives' /\ WaitingUnused' /\ Watched'
<1>1. Live' = Live \ {cur} /\ Ordered(rank)'
  BY GoneKeepsOrder DEF State, List
<1>2. cur \in Clients /\ mem' = [mem EXCEPT ![cur] = "freed"]
  BY DEF rfbClientConnectionGone, Live
<1>3. Open' = Open \ {cur}
  <2>1. CASE sock[cur] = -1
    BY <1>1, <2>1 DEF Open, socketVars
  <2>2. CASE sock[cur] # -1
    <3>1. \A d \in Live \ {cur} : sock'[d] = sock[d]
      BY <2>2 DEF rfbCloseClient, State, TypeOK, Live
    <3>2. QED BY <1>1, <3>1 DEF Open
  <2>3. QED BY <2>1, <2>2
<1>4. /\ Sockets' /\ allFds' \subseteq Fds /\ maxFd' \in Fds \cup {0}
      /\ sock' \in [Clients -> Fds \cup {-1}]
  <2>1. Sockets /\ TypeOK
    BY DEF State, Watched
  <2>2. CASE sock[cur] = -1
    <3>1. Open' = Open /\ UNCHANGED socketVars
      BY <1>3, <2>2 DEF Open
    <3>2. QED BY <2>1, <3>1 DEF Sockets, TypeOK, socketVars
  <2>3. CASE sock[cur] # -1
    <3>1. cur \in Open
      BY <2>3 DEF Open
    <3>2. QED BY <1>3, <2>1, <2>3, <3>1, CloseKeepsSockets
  <2>4. QED BY <2>2, <2>3
<1>5. listenSock' = listenSock
  BY DEF rfbCloseClient, socketVars
<1>6. Reported'
  BY <1>1, <1>2 DEF State, Reported, rfbClientConnectionGone, TypeOK
<1>7. hooked' \in [Clients -> {0, 1}]
  BY <1>2 DEF State, Reported, rfbClientConnectionGone, TypeOK
<1>8. TypeOK'
  BY <1>2, <1>4, <1>5, <1>7 DEF State, TypeOK, rfbClientConnectionGone, netVars
<1>9. PointerHolderLives'
  BY <1>1, NilAssumption DEF State, PointerHolderLives, rfbClientConnectionGone
<1>10. WaitingUnused'
  BY <1>2 DEF State, WaitingUnused, TypeOK, netVars
<1>11. QED BY <1>1, <1>3, <1>4, <1>6, <1>8, <1>9, <1>10 DEF Watched

\* A turn of the second scan of rfbProcessEvents.
LEMMA UpdateClientInv ==
  ASSUME State, NEW rank \in [Clients -> Nat], List(rank), UpdateClient
  PROVE  State' /\ List(rank)'
<1> USE DEF UpdateClient
<1>1. cur \in Live /\ cur' = next[cur] /\ pc = "update" /\ pc' = "update"
  BY DEF State, Iterators, WorkerOnLiveRecord
<1>2. cur' \in (Live \ {cur}) \cup {Nil} /\ rank[cur] \in Nat
  <2>1. rank[cur] \in Nat
    BY <1>1 DEF Live
  <2>2. next[cur] # Nil => next[cur] \in Live /\ rank[cur] < rank[next[cur]]
    BY <1>1 DEF List, Ordered
  <2>3. QED BY <1>1, <2>1, <2>2
<1>3. /\ fds' \subseteq Fds /\ cur' \in Clients \cup {Nil} /\ mTerminated' \in BOOLEAN
      /\ UNCHANGED netVars
  BY <1>2 DEF State, TypeOK, Live
<1>4. \A d \in Live \ Open : d # cur => cur' # Nil /\ rank[cur'] <= rank[d]
  BY <1>1, StepAhead DEF List, ClosedAhead, Ahead
<1>5. CASE sock[cur] # -1 /\ UNCHANGED <<listVars, socketVars>>
  <2>1. Live' = Live /\ Open' = Open /\ cur \in Open
    BY <1>1, <1>5, Untouched DEF Open
  <2>2. ClosedAhead(rank)'
    BY <1>4, <2>1 DEF ClosedAhead, Ahead
  <2>3. Iterators' /\ Collected' /\ StillReady' /\ ReadAhead(rank)'
    BY <1>1, <1>2, <2>1 DEF Iterators, WorkerOnLiveRecord, Collected, StillReady, ReadAhead
  <2>4. QED BY <1>1, <1>3, <1>5, <2>2, <2>3, QuietStep
<1>6. CASE /\ IF sock[cur] = -1 THEN UNCHANGED socketVars ELSE rfbCloseClient(cur)
           /\ rfbClientConnectionGone(cur)
  <2>1. /\ Live' = Live \ {cur} /\ Open' = Open \ {cur} /\ Ordered(rank)'
        /\ TypeOK' /\ Reported' /\ PointerHolderLives' /\ WaitingUnused' /\ Watched'
    BY <1>1, <1>3, <1>6, Burial
  <2>2. Iterators' /\ Collected' /\ StillReady' /\ ReadAhead(rank)'
    BY <1>1, <1>2, <2>1 DEF Iterators, WorkerOnLiveRecord, Collected, StillReady, ReadAhead
  <2>3. ClosedAhead(rank)'
    BY <1>4, <2>1 DEF ClosedAhead, Ahead
  <2>4. QED BY <2>1, <2>2, <2>3 DEF State, List
<1>7. QED BY <1>5, <1>6

\* A turn of rfbShutdownServer.
LEMMA ShutdownClientInv ==
  ASSUME State, NEW rank \in [Clients -> Nat], List(rank), ShutdownClient
  PROVE  State' /\ List(rank)'
<1> USE DEF ShutdownClient
<1>1. cur = clientHead /\ cur \in Live /\ cur \in Clients /\ Live = Open /\ cur' = cur /\ pc' = "freed"
  BY DEF State, Iterators, Collected, List, Ordered, Live
<1>2. /\ Live' = Live \ {cur} /\ Open' = Open \ {cur} /\ Ordered(rank)'
      /\ TypeOK' /\ Reported' /\ PointerHolderLives' /\ WaitingUnused' /\ Watched'
  <2>1. /\ fds' \subseteq Fds /\ cur' \in Clients \cup {Nil} /\ mTerminated' \in BOOLEAN
    BY <1>1 DEF State, TypeOK
  <2>2. QED BY <1>1, <2>1, Burial
<1>3. prev[cur] = Nil
  BY <1>1 DEF List, Ordered
<1>4. clientHead' = next[cur] /\ next'[cur] = next[cur]
  BY <1>1, <1>3, NilAssumption DEF rfbClientConnectionGone
<1>5. Iterators' /\ Collected' /\ StillReady'
  BY <1>1, <1>2, <1>4 DEF Iterators, WorkerOnLiveRecord, Collected, StillReady
<1>6. ReadAhead(rank)' /\ ClosedAhead(rank)'
  BY <1>1 DEF ReadAhead, ClosedAhead
<1>7. QED BY <1>2, <1>5, <1>6 DEF State, List

\* A client's message is read, or its connection closed; the record stays.
LEMMA MessageInv ==
  ASSUME State, NEW rank \in [Clients -> Nat], List(rank), rfbProcessClientMessage
  PROVE  State' /\ List(rank)'
<1> USE DEF rfbProcessClientMessage
<1>1. cur \in Live /\ cur \in Clients /\ cur' = next[cur] /\ pc = "read" /\ pc' = "read"
  BY DEF State, Iterators, WorkerOnLiveRecord, Live
<1>2. UNCHANGED <<clientHead, mem, next, prev, hooked, backlog, fds, mTerminated>>
  OBVIOUS
<1>3. Live' = Live
  BY <1>2 DEF Live
<1>4. Ordered(rank)'
  BY <1>2, <1>3 DEF List, Ordered
<1>5. cur' \in Live \cup {Nil}
  BY <1>1 DEF List, Ordered
<1>6. /\ Open' \subseteq Open /\ Sockets' /\ listenSock' = listenSock
      /\ allFds' \subseteq Fds /\ maxFd' \in Fds \cup {0}
      /\ sock' \in [Clients -> Fds \cup {-1}]
      /\ \A d \in Live \ {cur} : sock'[d] = sock[d] /\ wire'[d] = wire[d]
      /\ wire' \in [Clients -> {"idle", "data", "eof"}]
      /\ pointerClient' \in {Nil, cur, pointerClient}
  <2>1. TypeOK /\ Sockets
    BY <1>1 DEF State, Watched
  <2>2. CASE /\ wire' \in {wire, [wire EXCEPT ![cur] = "idle"]}
             /\ PointerEvent(cur) \/ UNCHANGED pointerClient
             /\ UNCHANGED socketVars
    <3>1. Open' = Open /\ UNCHANGED <<sock, allFds, maxFd, listenSock>>
      BY <1>3, <2>2 DEF Open, socketVars
    <3>2. Sockets'
      BY <2>1, <3>1 DEF Sockets
    <3>3. pointerClient' \in {Nil, cur, pointerClient}
      BY <2>2 DEF PointerEvent
    <3>4. QED BY <1>1, <2>1, <2>2, <3>1, <3>2, <3>3 DEF TypeOK, Live
  <2>3. CASE rfbCloseClient(cur) /\ UNCHANGED <<wire, pointerClient>>
    <3>1. cur \in Open
      BY <1>1, FdsAssumption DEF Open, State, TypeOK
    <3>2. \A d \in Clients : sock'[d] = IF d = cur THEN -1 ELSE sock[d]
      BY <1>1, <2>1, <2>3 DEF rfbCloseClient, TypeOK
    <3>3. Open' = Open \ {cur}
      BY <1>1, <1>3, <3>2 DEF Open, Live
    <3>4. /\ Sockets' /\ allFds' \subseteq Fds /\ maxFd' \in Fds \cup {0}
          /\ sock' \in [Clients -> Fds \cup {-1}]
      BY <2>1, <2>3, <3>1, <3>3, CloseKeepsSockets
    <3>5. listenSock' = listenSock
      BY <2>3 DEF rfbCloseClient
    <3>6. QED BY <2>1, <2>3, <3>2, <3>3, <3>4, <3>5 DEF TypeOK, Live
  <2>4. QED BY <2>2, <2>3
<1>7. TypeOK'
  BY <1>1, <1>2, <1>5, <1>6 DEF State, TypeOK, Live
<1>8. Iterators' /\ Collected' /\ StillReady' /\ ClosedAhead(rank)' /\ Watched'
  BY <1>1, <1>3, <1>5, <1>6
     DEF Iterators, WorkerOnLiveRecord, Collected, StillReady, ClosedAhead, Watched
<1>9. Reported' /\ PointerHolderLives' /\ WaitingUnused'
  BY <1>1, <1>2, <1>3, <1>6 DEF State, Reported, PointerHolderLives, WaitingUnused
<1>10. ReadAhead(rank)'
  <2>1. ASSUME NEW d \in Ahead(rank)' PROVE d \in Ahead(rank) /\ d \in Live \ {cur}
    <3>1. d \in Live /\ next[cur] # Nil /\ rank[next[cur]] <= rank[d]
      BY <1>1, <1>3 DEF Ahead
    <3>2. rank[cur] < rank[next[cur]] /\ rank[cur] \in Nat /\ rank[next[cur]] \in Nat
      BY <1>1, <3>1 DEF List, Ordered, Live
    <3>3. d # cur
      BY <3>1, <3>2
    <3>4. QED BY <1>1, <3>1, <3>3, StepAhead, NilAssumption DEF Ahead, List
  <2>2. QED BY <1>1, <1>2, <1>6, <2>1 DEF List, ReadAhead
<1>11. QED BY <1>4, <1>7, <1>8, <1>9, <1>10 DEF State, List

\* What holds after a connection was taken from the backlog, with the records
\* in the order r; where the worker goes from there is left open.
Accepted(r) ==
  /\ Ordered(r)' /\ Sockets' /\ Reported' /\ PointerHolderLives' /\ WaitingUnused'
  /\ fds \subseteq allFds' /\ UNCHANGED listenSock
  /\ \A d \in Open' : sock'[d] \in fds => wire[d] # "idle"
  /\ clientHead' \in Clients \cup {Nil} /\ pointerClient' \in Clients \cup {Nil}
  /\ allFds' \subseteq Fds /\ maxFd' \in Fds \cup {0}
  /\ mem' \in [Clients -> {"unused", "live", "freed", "leaked"}]
  /\ sock' \in [Clients -> Fds \cup {-1}]
  /\ next' \in [Clients -> Clients \cup {Nil}]
  /\ prev' \in [Clients -> Clients \cup {Nil}]
  /\ hooked' \in [Clients -> {0, 1}]
  /\ backlog' \in [Listeners -> SUBSET Clients]

\* A connection is taken from the backlog and becomes a record, or does not.
LEMMA Acceptance ==
  ASSUME State, NEW rank \in [Clients -> Nat], List(rank),
         NEW k \in Listeners, NEW c \in backlog[k], pc \in {"accept", "accept6"},
         backlog' = [backlog EXCEPT ![k] = @ \ {c}],
         \/ UNCHANGED <<listVars, socketVars>>
         \/ LeakClient(c)
         \/ DropClient(c)
         \/ \E fd \in UnusedFds : LinkClient(c, fd)
  PROVE  \E r \in [Clients -> Nat] : Accepted(r)
<1>1. c \in Clients /\ mem[c] \in {"unused", "freed"} /\ c \notin Live
  BY DEF State, WaitingUnused, TypeOK, Live
<1>2. backlog' \in [Listeners -> SUBSET Clients]
  BY DEF State, TypeOK
<1>3. \A l \in Listeners : backlog'[l] \subseteq backlog[l] /\ c \notin backlog'[l]
  <2>1. \A l \in Listeners : backlog'[l] = IF l = k THEN backlog[k] \ {c} ELSE backlog[l]
    BY DEF State, TypeOK
  <2>2. QED BY <2>1 DEF State, WaitingUnused
<1>4. TypeOK /\ Sockets /\ Ordered(rank)
  BY DEF State, Watched, List
<1>5. fds \subseteq allFds /\ \A d \in Open : sock[d] \in fds => wire[d] # "idle"
  BY DEF State, StillReady
<1>6. CASE UNCHANGED <<clientHead, next, prev, hooked, pointerClient, socketVars>> /\
           (UNCHANGED mem \/ \E m \in {"leaked", "freed"} : mem' = [mem EXCEPT ![c] = m])
  <2>1. /\ mem' \in [Clients -> {"unused", "live", "freed", "leaked"}] /\ Live' = Live
        /\ \A d \in Clients \ {c} : mem'[d] = mem[d]
    BY <1>1, <1>4, <1>6 DEF Live, TypeOK
  <2>2. UNCHANGED <<clientHead, next, prev, hooked, pointerClient, sock, allFds, maxFd, listenSock>>
    BY <1>6 DEF socketVars
  <2>3. Open' = Open
    BY <2>1, <2>2 DEF Open
  <2>4. Ordered(rank)' /\ Reported' /\ PointerHolderLives'
    BY <2>1, <2>2 DEF State, List, Ordered, Reported, PointerHolderLives
  <2>5. Sockets'
    BY <1>4, <2>2, <2>3 DEF Sockets
  <2>6. WaitingUnused'
    BY <1>2, <1>3, <2>1 DEF State, WaitingUnused
  <2>7. QED BY <1>2, <1>4, <1>5, <2>1, <2>2, <2>3, <2>4, <2>5, <2>6 DEF TypeOK, Accepted
<1>7. ASSUME NEW fd \in UnusedFds, LinkClient(c, fd)
      PROVE  \E r \in [Clients -> Nat] : Accepted(r)
  <2>1. /\ Live' = Live \cup {c} /\ Pushed(rank, c) \in [Clients -> Nat]
        /\ Ordered(Pushed(rank, c))'
    BY <1>1, <1>4, <1>7, LinkKeepsOrder
  <2>2. /\ Open' = Open \cup {c} /\ Sockets'
        /\ allFds' \subseteq Fds /\ maxFd' \in Fds \cup {0}
        /\ sock' \in [Clients -> Fds \cup {-1}]
    BY <1>1, <1>4, <1>7, LinkKeepsSockets
  <2>3. /\ mem' \in [Clients -> {"unused", "live", "freed", "leaked"}]
        /\ next' \in [Clients -> Clients \cup {Nil}]
        /\ clientHead' \in Clients \cup {Nil} /\ pointerClient' \in Clients \cup {Nil}
        /\ \A d \in Clients \ {c} : mem'[d] = mem[d]
        /\ UNCHANGED <<pointerClient, listenSock>>
    BY <1>1, <1>4, <1>7 DEF LinkClient, TypeOK
  <2>4. prev' \in [Clients -> Clients \cup {Nil}]
    <3>1. \A d \in Clients : (CASE d = c -> Nil
                               [] d = clientHead -> c
                               [] OTHER -> prev[d]) \in Clients \cup {Nil}
      BY <1>1, <1>4 DEF TypeOK
    <3>2. QED BY <1>7, <3>1, Zenon DEF LinkClient
  <2>5. Reported' /\ hooked' \in [Clients -> {0, 1}]
    BY <1>1, <1>4, <1>7, <2>1 DEF State, Reported, LinkClient, TypeOK
  <2>6. PointerHolderLives'
    BY <2>1, <2>3 DEF State, PointerHolderLives
  <2>7. WaitingUnused'
    BY <1>2, <1>3, <2>3 DEF State, WaitingUnused
  <2>8. fds \subseteq allFds' /\ \A d \in Open' : sock'[d] \in fds => wire[d] # "idle"
    <3>1. fd \notin fds /\ allFds \subseteq allFds' /\ sock'[c] = fd
      BY <1>1, <1>4, <1>5, <1>7 DEF UnusedFds, LinkClient, TypeOK
    <3>2. \A d \in Open : sock'[d] = sock[d]
      BY <1>1, <1>4, <1>7 DEF LinkClient, TypeOK, Open, Live
    <3>3. QED BY <1>5, <2>2, <3>1, <3>2
  <2>9. QED BY <1>2, <2>1, <2>2, <2>3, <2>4, <2>5, <2>6, <2>7, <2>8 DEF Accepted
<1>8. QED BY <1>6, <1>7 DEF LeakClient, DropClient, listVars

\* rfbProcessNewConnection takes from a backlog that is not empty, and what
\* select() reported of the others stays true.
LEMMA NewConnectionInv ==
  ASSUME State, NEW rank \in [Clients -> Nat], List(rank),
         NEW l \in Listeners, rfbProcessNewConnection(l)
  PROVE  IInv'
<1> USE DEF rfbProcessNewConnection
<1>1. Chosen \in Listeners
  BY ListenersAssumption DEF Chosen
<1>2. PICK c \in backlog[Chosen] :
        /\ backlog' = [backlog EXCEPT ![Chosen] = @ \ {c}]
        /\ \/ UNCHANGED <<listVars, socketVars>> /\ ToUpdate
           \/ /\ \/ LeakClient(c)
                 \/ DropClient(c)
                 \/ \E fd \in UnusedFds : LinkClient(c, fd)
              /\ IF fds = {listenSock[l]} THEN ToUpdate
                 ELSE AfterAccept(l, fds \ {listenSock[l]})
  OBVIOUS
<1>3. pc = AcceptStage[l] /\ pc \in {"accept", "accept6"} /\ UNCHANGED <<wire, mTerminated>>
  BY DEF AcceptStage
<1>4. PICK r \in [Clients -> Nat] : Accepted(r)
  <2>1. \E r \in [Clients -> Nat] : Accepted(r)
    <3> HIDE DEF rfbProcessNewConnection
    <3>1. QED BY <1>1, <1>2, <1>3, Acceptance
  <2>2. QED BY <2>1
<1>5. \/ ToUpdate
      \/ AfterAccept(l, fds \ {listenSock[l]})
  BY <1>2
<1>6. /\ pc' \in {"update", "accept6", "read"} /\ fds' \subseteq fds
      /\ pc' # "accept6" => cur' = clientHead'
      /\ cur' \in Clients \cup {Nil}
  BY <1>4, <1>5 DEF ToUpdate, AfterAccept, Accepted, State, TypeOK
<1>7. pc' # "accept6" => Ahead(r)' = Live' /\ cur' \in Live' \cup {Nil}
  BY <1>4, <1>6, HeadAhead DEF Accepted
<1>8. TypeOK'
  BY <1>3, <1>4, <1>6 DEF State, TypeOK, Accepted
<1>9. Iterators' /\ Collected' /\ ClosedAhead(r)' /\ Watched'
  BY <1>4, <1>6, <1>7
     DEF Iterators, WorkerOnLiveRecord, Collected, ClosedAhead, Watched, Accepted
<1>10. ReadAhead(r)'
  <2>1. \A d \in Live' : sock'[d] \in fds' => d \in Open'
    BY <1>8, FdsAssumption DEF Open, TypeOK
  <2>2. QED BY <1>3, <1>4, <1>6, <1>7, <2>1 DEF ReadAhead, Accepted
<1>11. StillReady'
  <2>1. CASE pc' # "accept6"
    BY <1>6, <2>1 DEF StillReady
  <2>2. CASE pc' = "accept6"
    <3>1. l = 4 /\ 6 \in Listeners /\ pc = "accept" /\ backlog[4] # {}
      BY <1>3, <1>5, <2>2 DEF ToUpdate, AfterAccept, AcceptStage, State, StillReady
    <3>2. ASSUME NEW k \in Listeners \ {4}, listenSock'[k] \in fds'
          PROVE  backlog'[4] # {} \/ backlog'[k] # {}
      <4>1. k = 6
        BY ListenersAssumption
      <4>2. listenSock[6] \in fds
        BY <1>4, <1>6, <3>2, <4>1 DEF Accepted
      <4>3. backlog[6] # {}
        BY <3>1, <4>2 DEF State, StillReady
      <4>4. Chosen = 6
        BY <3>1, <4>3 DEF Chosen
      <4>5. backlog'[4] = backlog[4]
        BY <1>2, <3>1, <4>4 DEF State, TypeOK
      <4>6. QED BY <3>1, <4>5
    <3>3. fds' \subseteq allFds' /\ \A d \in Open' : sock'[d] \in fds' => wire'[d] # "idle"
      BY <1>3, <1>4, <1>6 DEF Accepted
    <3>4. QED BY <2>2, <3>2, <3>3 DEF StillReady
  <2>3. QED BY <2>1, <2>2
<1>12. QED BY <1>4, <1>8, <1>9, <1>10, <1>11 DEF IInv, State, List, Accepted

\* No step of the worker, of rfbShutdownServer or of the network leaves the
\* inductive invariant.
LEMMA NextInv == IInv /\ [Next]_vars => IInv'
<1> SUFFICES ASSUME IInv, [Next]_vars PROVE IInv'
  OBVIOUS
<1>1. PICK rank \in [Clients -> Nat] : List(rank)
  BY DEF IInv
<1>2. State
  BY DEF IInv
<1>3. State' /\ List(rank)' => IInv'
  BY DEF IInv
<1>4. CASE Network
  BY <1>1, <1>2, <1>3, <1>4, NetworkInv
<1>5. CASE StartServer
  BY <1>1, <1>2, <1>3, <1>5, StartInv
<1>6. CASE WorkerLoop \/ ReadDone \/ UpdateDone \/ SelectReady
  BY <1>1, <1>2, <1>3, <1>6, LoopInv
<1>7. CASE SelectTimeout \/ (\E l \in Listeners : NothingToAccept(l)) \/ ShutdownBegins
  BY <1>1, <1>2, <1>3, <1>7, ScanBeginsInv
<1>8. CASE \E l \in Listeners : rfbProcessNewConnection(l)
  BY <1>1, <1>2, <1>8, NewConnectionInv
<1>9. CASE ReadNothing \/ SkipClosed
  BY <1>1, <1>2, <1>3, <1>9, IteratorInv
<1>10. CASE rfbProcessClientMessage
  BY <1>1, <1>2, <1>3, <1>10, MessageInv
<1>11. CASE UpdateClient
  BY <1>1, <1>2, <1>3, <1>11, UpdateClientInv
<1>12. CASE StopServer \/ NextOfFreed
  BY <1>1, <1>2, <1>3, <1>12, StopInv
<1>13. CASE ShutdownClient
  BY <1>1, <1>2, <1>3, <1>13, ShutdownClientInv
<1>14. CASE ShutdownSockets
  BY <1>1, <1>2, <1>3, <1>14, ShutdownSocketsInv
<1>15. CASE UNCHANGED vars
  <2>1. UNCHANGED <<listVars, socketVars>> /\ UNCHANGED <<netVars, threadVars>>
    BY <1>15 DEF vars
  <2>2. /\ Live' = Live /\ Open' = Open /\ Reported' /\ PointerHolderLives'
        /\ (Sockets => Sockets') /\ Ordered(rank)'
    BY <1>1, <1>2, <2>1, Untouched DEF List
  <2>3. Ahead(rank)' = Ahead(rank)
    BY <2>1, <2>2 DEF Ahead, threadVars
  <2>4. TypeOK' /\ WaitingUnused' /\ Watched'
    BY <1>2, <2>1, <2>2 DEF State, TypeOK, WaitingUnused, Watched,
                            listVars, socketVars, netVars, threadVars
  <2>5. Iterators' /\ Collected' /\ StillReady'
    BY <1>2, <2>1, <2>2 DEF State, Iterators, WorkerOnLiveRecord, Collected, StillReady,
                            listVars, socketVars, netVars, threadVars
  <2>6. ReadAhead(rank)' /\ ClosedAhead(rank)'
    BY <1>1, <2>1, <2>2, <2>3 DEF List, ReadAhead, ClosedAhead, socketVars, netVars, threadVars
  <2>7. QED BY <1>3, <2>2, <2>4, <2>5, <2>6 DEF State, List
<1>16. QED BY <1>4, <1>5, <1>6, <1>7, <1>8, <1>9, <1>10, <1>11, <1>12, <1>13, <1>14, <1>15
           DEF Next, Worker, Shutdown

\* The inductive invariant of list, sockets, iterators and hooks holds in every
\* reachable state.
THEOREM Invariance == Spec => []IInv
BY InitInv, NextInv, PTL DEF Spec

-----------------------------------------------------------------------------
(***************************************************************************)
(* The results                                                             *)
(***************************************************************************)

\* No variable leaves its type: the calls of the hooks alternate and maxFd is
\* always a descriptor.
THEOREM TypeCorrect == Spec => []TypeOK
<1>1. IInv => TypeOK
  BY DEF IInv, State
<1>2. QED BY <1>1, Invariance, PTL

\* Through every mix of connects, disconnects, failures and shutdowns the list
\* links the live records, both ways, and nothing else.
THEOREM ListStaysWellFormed == Spec => []ListWellFormed
<1>1. IInv => ListWellFormed
  BY DEF IInv, List, Ordered, ListWellFormed
<1>2. QED BY <1>1, Invariance, PTL

\* No scan of rfbProcessEvents or rfbCheckFds uses a record after it was freed.
THEOREM WorkerIsOnLiveRecord == Spec => []WorkerOnLiveRecord
<1>1. IInv => WorkerOnLiveRecord
  BY DEF IInv, State, Iterators
<1>2. QED BY <1>1, Invariance, PTL

\* A pointer grab does not outlive its client, and no closed client is left in
\* the list between two calls of rfbProcessEvents.
THEOREM NothingLeftBehind == Spec => [](PointerHolderLives /\ ClosedAreCollected)
<1>1. IInv => PointerHolderLives /\ ClosedAreCollected
  BY DEF IInv, State, Collected, ClosedAreCollected
<1>2. QED BY <1>1, Invariance, PTL

\* select() watches the listeners and the open clients, and nothing else.
THEOREM SelectWatchesAll == Spec => []SelectWatches
<1>1. IInv => SelectWatches
  <2> SUFFICES ASSUME IInv, pc \notin {"off", "crashed"}
               PROVE  /\ \A c \in Open : sock[c] \in allFds /\ sock[c] <= maxFd
                      /\ \A c, d \in Open : sock[c] = sock[d] => c = d
                      /\ allFds = {sock[c] : c \in Open} \cup
                                  ({listenSock[l] : l \in Listeners} \ {-1})
    BY DEF SelectWatches
  <2>1. Sockets /\ allFds \subseteq Nat
    BY FdsAssumption DEF IInv, State, Watched, TypeOK
  <2>2. \A fd \in allFds : fd # -1
    BY <2>1
  <2>3. ASSUME NEW fd \in allFds
        PROVE  fd \in {sock[c] : c \in Open} \cup ({listenSock[l] : l \in Listeners} \ {-1})
    BY <2>1, <2>2 DEF Sockets
  <2>4. ASSUME NEW fd \in {sock[c] : c \in Open} \cup ({listenSock[l] : l \in Listeners} \ {-1})
        PROVE  fd \in allFds
    BY <2>1 DEF Sockets
  <2>5. allFds = {sock[c] : c \in Open} \cup ({listenSock[l] : l \in Listeners} \ {-1})
    BY <2>3, <2>4
  <2>6. QED BY <2>1, <2>5 DEF Sockets
<1>2. QED BY <1>1, Invariance, PTL

\* rfbProcessEvents never waits in accept or in a read.
THEOREM WorkerNeverBlocks == Spec => []NeverBlocks
<1>1. IInv => NeverBlocks
  <2> SUFFICES ASSUME IInv PROVE NeverBlocks
    OBVIOUS
  <2>1. PICK rank \in [Clients -> Nat] : List(rank)
    BY DEF IInv
  <2>2. ASSUME NEW l \in Listeners, pc = AcceptStage[l], listenSock[l] \in fds
        PROVE  backlog[Chosen] # {}
    <3>1. CASE l = 4
      BY <2>2, <3>1 DEF IInv, State, StillReady, AcceptStage, Chosen
    <3>2. CASE l # 4
      <4>1. l = 6 /\ pc = "accept6"
        BY <2>2, <3>2, ListenersAssumption DEF AcceptStage
      <4>2. backlog[4] # {} \/ backlog[6] # {}
        BY <2>2, <4>1 DEF IInv, State, StillReady
      <4>3. QED BY <4>1, <4>2 DEF Chosen
    <3>3. QED BY <3>1, <3>2
  <2>3. ASSUME pc = "read", cur # Nil, sock[cur] \in fds PROVE wire[cur] # "idle"
    <3>1. cur \in Live /\ rank[cur] \in Nat
      BY <2>3 DEF IInv, State, Iterators, WorkerOnLiveRecord, Live
    <3>2. cur \in Ahead(rank)
      BY <2>3, <3>1 DEF Ahead
    <3>3. QED BY <2>1, <2>3, <3>2 DEF List, ReadAhead
  <2>4. QED BY <2>2, <2>3 DEF NeverBlocks
<1>2. QED BY <1>1, Invariance, PTL

-----------------------------------------------------------------------------
(***************************************************************************)
(* The events of the application                                           *)
(***************************************************************************)

\* The clients that the application has been told of.
Known == {c \in Clients : hooked[c] # 0}

\* No hook has been called at first.
LEMMA EventsInit == Init => Events!Init
BY DEF Init, Events!Init

\* A record that is linked is a call of newClientHook, one that is unlinked a
\* call of clientGoneHook; the server stops when all are unlinked.
LEMMA EventsStep ==
  IInv /\ [Next]_vars => [Events!Next]_<<pc # "off", Known>>
<1> SUFFICES ASSUME IInv, [Next]_vars
             PROVE  Events!Next \/ UNCHANGED <<pc # "off", Known>>
  BY DEF Known
<1> USE DEF Known
<1>1. State /\ TypeOK
  BY DEF IInv, State
<1>2. Known = Live
  BY <1>1 DEF State, Reported, Live
<1>3. CASE StartServer
  <2>1. Events!Start
    BY <1>3 DEF StartServer, Events!Start
  <2>2. QED BY <2>1 DEF Events!Next
<1>4. CASE ShutdownSockets
  <2>1. Live = {}
    BY <1>1, <1>4 DEF ShutdownSockets, State, Iterators, IInv, List, Ordered
  <2>2. Events!Stop
    BY <1>2, <1>4, <2>1 DEF ShutdownSockets, Events!Stop, listVars
  <2>3. QED BY <2>2 DEF Events!Next
<1>5. ASSUME NEW c \in Live, rfbClientConnectionGone(c), pc # "off", pc' # "off"
      PROVE  Events!Next
  <2>1. c \in Clients /\ hooked[c] = 1 /\ hooked' = [hooked EXCEPT ![c] = @ - 1]
    BY <1>1, <1>5 DEF State, Reported, Live, rfbClientConnectionGone
  <2>2. Known' = Known \ {c} /\ c \in Known
    BY <1>1, <2>1 DEF TypeOK
  <2>3. Events!clientGoneHook(c)
    BY <1>5, <2>2 DEF Events!clientGoneHook
  <2>4. QED BY <2>1, <2>3 DEF Events!Next
<1>6. CASE UpdateClient
  <2>1. cur \in Live
    BY <1>1, <1>6 DEF UpdateClient, State, Iterators, WorkerOnLiveRecord
  <2>2. QED BY <1>5, <1>6, <2>1 DEF UpdateClient, listVars
<1>7. CASE ShutdownClient
  <2>1. cur \in Live
    BY <1>1, <1>7 DEF ShutdownClient, State, Iterators, IInv, List, Ordered
  <2>2. QED BY <1>5, <1>7, <2>1 DEF ShutdownClient
<1>8. ASSUME NEW l \in Listeners, rfbProcessNewConnection(l)
      PROVE  Events!Next \/ UNCHANGED <<pc # "off", Known>>
  <2>1. pc # "off" /\ pc' # "off"
    BY <1>8 DEF rfbProcessNewConnection, AcceptStage, ToUpdate, AfterAccept
  <2>2. CASE UNCHANGED hooked
    BY <2>1, <2>2
  <2>3. ASSUME NEW c \in backlog[Chosen], NEW fd \in UnusedFds, LinkClient(c, fd)
        PROVE  Events!Next
    <3>1. c \in Clients /\ c \notin Live
      BY <1>1, ListenersAssumption DEF State, WaitingUnused, TypeOK, Live, Chosen
    <3>2. hooked[c] = 0 /\ hooked' = [hooked EXCEPT ![c] = @ + 1]
      BY <1>1, <2>3, <3>1 DEF State, Reported, LinkClient
    <3>3. Known' = Known \cup {c} /\ c \notin Known
      BY <1>1, <3>1, <3>2 DEF TypeOK
    <3>4. Events!newClientHook(c)
      BY <2>1, <3>3 DEF Events!newClientHook
    <3>5. QED BY <3>1, <3>4 DEF Events!Next
  <2>4. QED BY <1>8, <2>2, <2>3
            DEF rfbProcessNewConnection, LeakClient, DropClient, listVars
<1>9. CASE Network \/ StopServer \/ ShutdownBegins \/ NextOfFreed \/ UNCHANGED vars
  BY <1>9 DEF Network, Connect, Speak, HangUp, StopServer, ShutdownBegins, NextOfFreed,
              listVars, threadVars, vars
<1>10. CASE \/ WorkerLoop \/ SelectTimeout \/ SelectReady \/ ReadNothing \/ SkipClosed
            \/ ReadDone \/ UpdateDone \/ rfbProcessClientMessage
            \/ \E l \in Listeners : NothingToAccept(l)
  BY <1>10 DEF WorkerLoop, SelectTimeout, SelectReady, ReadNothing, SkipClosed, ReadDone,
               UpdateDone, rfbProcessClientMessage, NothingToAccept, AcceptStage,
               ToUpdate, AfterAccept, listVars
<1>11. QED BY <1>3, <1>4, <1>6, <1>7, <1>8, <1>9, <1>10 DEF Next, Worker, Shutdown

\* The application sees what ClientEvents promises: newClientHook and
\* clientGoneHook in turn for each client, and no client left when the server
\* has stopped.
THEOREM EventsArePromised == Spec => EventsSpec
BY EventsInit, EventsStep, Invariance, PTL DEF Spec, EventsSpec, Events!Spec, Known
=============================================================================
