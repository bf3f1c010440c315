--------------------------- MODULE MTServiceProofs ---------------------------
(***************************************************************************)
(* Proofs about MTService, for any number of connections and descriptors:  *)
(* the boss and its children agree about whose turn it is, so each child   *)
(* serves the connection it was started for.                               *)
(***************************************************************************)
EXTENDS MTService, FiniteSetTheorems, TLAPS

(* Who is past the lock holds the mutex, and only the boss waits. *)
HolderInside ==
    /\ boss = "test" <=> mLock = Boss
    /\ \A c \in Children : child[c] \in {"signal", "unlock"} <=> mLock = c
    /\ mCond \subseteq {Boss}
    /\ Boss \in mCond => boss = "wait"

(* The children that have not reported yet. *)
Pending == {c \in Children : child[c] \in {"fetch", "lock", "signal"}}

(* The boss moves on when the child of the last connection has reported,   *)
(* and until then it is the only one that has not.                         *)
Turns ==
    /\ \A c \in Children : c > accepted => child[c] = "none"
    /\ boss = "create" => accepted > 0 /\ child[accepted] = "none"
    /\ boss \in {"accept", "create", "thrown"} => mShareCount = 0 /\ Pending = {}
    /\ boss \in {"lock", "test", "wait"} =>
          /\ accepted > 0
          /\ Pending = IF mShareCount = 0 THEN {accepted} ELSE {}

(* Until it is fetched, the member stands for the last connection. *)
InHand ==
    boss = "create" \/ (accepted > 0 /\ child[accepted] = "fetch") =>
        mAcceptSocketfd \in Fds /\ open[mAcceptSocketfd] = accepted

ServiceInv == TypeOK /\ HolderInside /\ Turns /\ InHand /\ ServesOwnConnection
-----------------------------------------------------------------------------
LEMMA Numbers == Boss \notin Children /\ Children \subseteq Nat
BY MTAssumption DEF Boss, Children

LEMMA InitInv == Init => ServiceInv
<1> SUFFICES ASSUME Init PROVE ServiceInv
    OBVIOUS
<1>1. TypeOK
    BY MTAssumption DEF Init, TypeOK, Lock!Init, Lock!TypeOK
<1>2. HolderInside /\ Turns /\ InHand /\ ServesOwnConnection
    BY NoThreadAssumption, Numbers
    DEF Init, Lock!Init, HolderInside, Turns, Pending, InHand, ServesOwnConnection, Threads
<1> QED
    BY <1>1, <1>2 DEF ServiceInv

(* Every step keeps the types; that the count stays at one needs Turns. *)
LEMMA NextTypeOK == ServiceInv /\ [Next]_vars => TypeOK'
<1> SUFFICES ASSUME ServiceInv, [Next]_vars PROVE TypeOK'
    OBVIOUS
<1> USE MTAssumption DEF ServiceInv, TypeOK, Lock!TypeOK
<1>1. Boss \in Threads /\ Children \subseteq Threads
    BY DEF Threads
<1>2. CASE Accept \/ Throw \/ BossSpuriousWakeup
    BY <1>1, <1>2 DEF Accept, Throw, BossSpuriousWakeup, Lock!wake
<1>3. CASE CreateThread \/ BossLock \/ BossWait \/ BossRelock
    BY <1>1, <1>3 DEF CreateThread, BossLock, BossWait, BossRelock,
                      Lock!lock, Lock!wait, Lock!relock
<1>4. CASE BossUnlock
    BY <1>1, <1>4 DEF BossUnlock, Lock!unlock
<1>5. ASSUME NEW c \in Children, ChildSignal(c) PROVE TypeOK'
  <2>1. mShareCount = 0
    BY <1>5 DEF ChildSignal, Goto, Turns, Pending
  <2>2. Lock!signal
    BY <1>5, <2>1 DEF ChildSignal
  <2>3. mCond' \subseteq mCond /\ mLock' = mLock
    BY <2>2 DEF Lock!signal
  <2> QED
    BY <1>5, <2>1, <2>3 DEF ChildSignal, Goto
<1>6. ASSUME NEW c \in Children, Fetch(c) \/ ChildLock(c) \/ ChildUnlock(c) PROVE TypeOK'
    BY <1>1, <1>6 DEF Fetch, ChildLock, ChildUnlock, Goto, Lock!lock, Lock!unlock
<1>7. ASSUME NEW c \in Children, MakeSocket(c) \/ PeerGone(c) \/ Call(c) \/ Close(c)
      PROVE  TypeOK'
    BY <1>7 DEF MakeSocket, PeerGone, Call, Close, Goto
<1>8. CASE UNCHANGED vars
    BY <1>8 DEF vars
<1> QED
    BY <1>2, <1>3, <1>4, <1>5, <1>6, <1>7, <1>8 DEF Next, BossStep, ChildStep

LEMMA NextHolderInside == ServiceInv /\ [Next]_vars => HolderInside'
<1> SUFFICES ASSUME ServiceInv, [Next]_vars PROVE HolderInside'
    OBVIOUS
<1> USE NoThreadAssumption, Numbers DEF ServiceInv, TypeOK, HolderInside
<1>1. Boss \in Threads /\ Children \subseteq Threads
    BY DEF Threads
<1>2. CASE Accept \/ Throw \/ BossSpuriousWakeup
    BY <1>2 DEF Accept, Throw, BossSpuriousWakeup, Lock!wake
<1>3. CASE CreateThread
  <2>1. accepted \in Children /\ child[accepted] = "none"
    BY <1>3, MTAssumption DEF CreateThread, Turns, Children
  <2> QED
    BY <1>3, <2>1 DEF CreateThread
<1>4. CASE BossLock \/ BossWait \/ BossRelock \/ BossUnlock
    BY <1>1, <1>4 DEF BossLock, BossWait, BossRelock, BossUnlock,
                      Lock!lock, Lock!wait, Lock!relock, Lock!unlock
<1>5. ASSUME NEW c \in Children, ChildSignal(c) PROVE HolderInside'
  <2>1. mCond' \subseteq mCond /\ mLock' = mLock
    BY <1>5 DEF ChildSignal, Lock!signal
  <2> QED
    BY <1>5, <2>1 DEF ChildSignal, Goto
<1>6. ASSUME NEW c \in Children, Fetch(c) \/ ChildLock(c) \/ ChildUnlock(c)
      PROVE  HolderInside'
    BY <1>1, <1>6 DEF Fetch, ChildLock, ChildUnlock, Goto, Lock!lock, Lock!unlock
<1>7. ASSUME NEW c \in Children, MakeSocket(c) \/ PeerGone(c) \/ Call(c) \/ Close(c)
      PROVE  HolderInside'
    BY <1>7 DEF MakeSocket, PeerGone, Call, Close, Goto
<1>8. CASE UNCHANGED vars
    BY <1>8 DEF vars
<1> QED
    BY <1>2, <1>3, <1>4, <1>5, <1>6, <1>7, <1>8 DEF Next, BossStep, ChildStep

LEMMA NextTurns == ServiceInv /\ [Next]_vars => Turns'
<1> SUFFICES ASSUME ServiceInv, [Next]_vars PROVE Turns'
    OBVIOUS
<1> USE MTAssumption DEF ServiceInv, TypeOK, Turns, Pending
<1>1. CASE Accept
    BY <1>1 DEF Accept, Children
<1>2. CASE Throw \/ BossSpuriousWakeup \/ BossLock \/ BossWait \/ BossRelock
    BY <1>2 DEF Throw, BossSpuriousWakeup, BossLock, BossWait, BossRelock
<1>3. CASE CreateThread
  <2>1. accepted \in Children
    BY <1>3 DEF CreateThread, Children
  <2> QED
    BY <1>3, <2>1 DEF CreateThread
<1>4. CASE BossUnlock
    BY <1>4 DEF BossUnlock
<1>5. ASSUME NEW c \in Children, Fetch(c) \/ ChildLock(c) PROVE Turns'
  <2>1. CASE Fetch(c)
    BY <2>1, Numbers DEF Fetch, Goto
  <2>2. CASE ChildLock(c)
    BY <2>2, Numbers DEF ChildLock, Goto
  <2> QED BY <1>5, <2>1, <2>2
<1>6. ASSUME NEW c \in Children, ChildSignal(c) PROVE Turns'
  <2>1. c \in Pending /\ boss \in {"lock", "test", "wait"} /\ mShareCount = 0 /\ c = accepted
    BY <1>6 DEF ChildSignal, Goto
  <2> QED
    BY <1>6, <2>1, Numbers DEF ChildSignal, Goto
<1>7. ASSUME NEW c \in Children,
             ChildUnlock(c) \/ MakeSocket(c) \/ PeerGone(c) \/ Call(c) \/ Close(c)
      PROVE  Turns'
  <2>1. child[c] \notin {"none", "fetch", "lock", "signal"}
    BY <1>7 DEF ChildUnlock, MakeSocket, PeerGone, Call, Close, Goto
  <2>2. \A d \in Children :
           /\ child'[d] = "none" <=> child[d] = "none"
           /\ d \in Pending' <=> d \in Pending
    BY <1>7, <2>1 DEF ChildUnlock, MakeSocket, PeerGone, Call, Close, Goto
  <2>3. UNCHANGED <<boss, accepted, mShareCount>>
    BY <1>7 DEF ChildUnlock, MakeSocket, PeerGone, Call, Close
  <2>4. boss = "create" => accepted \in Children
    BY DEF Children
  <2>5. Pending' = Pending
    BY <2>2
  <2> QED
    BY <2>2, <2>3, <2>4, <2>5
<1>8. CASE UNCHANGED vars
    BY <1>8 DEF vars
<1> QED
    BY <1>1, <1>2, <1>3, <1>4, <1>5, <1>6, <1>7, <1>8 DEF Next, BossStep, ChildStep

(* A descriptor that stands for one connection stands for no other. *)
LEMMA NextOwnership == ServiceInv /\ [Next]_vars => InHand' /\ ServesOwnConnection'
<1> SUFFICES ASSUME ServiceInv, [Next]_vars PROVE InHand' /\ ServesOwnConnection'
    OBVIOUS
<1> USE MTAssumption DEF ServiceInv, TypeOK, InHand, ServesOwnConnection
<1>1. CASE Accept
  <2>1. PICK f \in Fds : /\ open[f] = 0
                         /\ open' = [open EXCEPT ![f] = accepted + 1]
                         /\ mAcceptSocketfd' = f
    BY <1>1 DEF Accept
  <2>2. InHand'
    BY <1>1, <2>1 DEF Accept
  <2>3. ServesOwnConnection'
    BY <1>1, <2>1, Numbers DEF Accept, Children
  <2> QED
    BY <2>2, <2>3
<1>2. CASE Throw \/ BossSpuriousWakeup \/ BossLock \/ BossWait \/ BossRelock \/ BossUnlock
    BY <1>2 DEF Throw, BossSpuriousWakeup, BossLock, BossWait, BossRelock, BossUnlock
<1>3. CASE CreateThread
  <2>1. accepted \in Children
    BY <1>3 DEF CreateThread, Turns, Children
  <2> QED
    BY <1>3, <2>1 DEF CreateThread
<1>4. ASSUME NEW c \in Children, Fetch(c) PROVE InHand' /\ ServesOwnConnection'
  <2>1. c = accepted /\ accepted > 0 /\ boss # "create"
    BY <1>4 DEF Fetch, Goto, Turns, Pending
  <2>2. mAcceptSocketfd # NoFd /\ open[mAcceptSocketfd] = c
    BY <1>4, <2>1 DEF Fetch, Goto
  <2> QED
    BY <1>4, <2>1, <2>2 DEF Fetch, Goto
<1>5. ASSUME NEW c \in Children,
             ChildLock(c) \/ ChildSignal(c) \/ ChildUnlock(c) \/ MakeSocket(c) \/ Call(c)
      PROVE  InHand' /\ ServesOwnConnection'
  <2>1. UNCHANGED <<mAcceptSocketfd, boss, fd, accepted, open>>
    BY <1>5 DEF ChildLock, ChildSignal, ChildUnlock, MakeSocket, Call
  <2>2. /\ child[c] \in {"lock", "signal", "unlock", "socket", "call"}
        /\ child' = [child EXCEPT ![c] = child'[c]]
        /\ child'[c] # "fetch"
    BY <1>5 DEF ChildLock, ChildSignal, ChildUnlock, MakeSocket, Call, Goto
  <2>3. \A d \in Children : child'[d] = "fetch" => child[d] = "fetch"
    BY <2>2
  <2>4. accepted > 0 => accepted \in Children
    BY DEF Children
  <2>5. InHand'
    BY <2>1, <2>3, <2>4
  <2>6. ServesOwnConnection'
    BY <2>1, <2>2
  <2> QED
    BY <2>5, <2>6
<1>6. ASSUME NEW c \in Children, PeerGone(c) \/ Close(c)
      PROVE  InHand' /\ ServesOwnConnection'
  <2>1. /\ child[c] \in {"socket", "serving"}
        /\ child' = [child EXCEPT ![c] = child'[c]]
        /\ child'[c] \in {"aborted", "done"}
        /\ open' = [open EXCEPT ![fd[c]] = 0]
        /\ UNCHANGED <<mAcceptSocketfd, boss, fd, accepted>>
    BY <1>6 DEF PeerGone, Close, Goto
  <2>2. fd[c] \in Fds /\ open[fd[c]] = c
    BY <2>1
  <2>3. InHand'
    <3>1. SUFFICES ASSUME boss = "create" \/ (accepted > 0 /\ child'[accepted] = "fetch")
                   PROVE  mAcceptSocketfd \in Fds /\ open'[mAcceptSocketfd] = accepted
      BY <2>1
    <3>2. accepted \in Children
      BY <3>1 DEF Turns, Children
    <3>3. c # accepted
      BY <2>1, <3>1 DEF Turns
    <3>4. mAcceptSocketfd \in Fds /\ open[mAcceptSocketfd] = accepted
      BY <2>1, <3>1, <3>2, <3>3
    <3> QED
      BY <2>1, <2>2, <3>3, <3>4
  <2>4. ServesOwnConnection'
    BY <2>1, <2>2
  <2> QED
    BY <2>3, <2>4
<1>7. CASE UNCHANGED vars
    BY <1>7 DEF vars
<1> QED
    BY <1>1, <1>2, <1>3, <1>4, <1>5, <1>6, <1>7 DEF Next, BossStep, ChildStep

LEMMA ServiceInvariant == Spec => []ServiceInv
<1>1. ServiceInv /\ [Next]_vars => ServiceInv'
    BY NextTypeOK, NextHolderInside, NextTurns, NextOwnership DEF ServiceInv
<1> QED
    BY <1>1, InitInv, PTL DEF Spec
-----------------------------------------------------------------------------
(* mShareCount is never more than one, and a child that serves has a       *)
(* descriptor: the types of the service.                                   *)
THEOREM Typing == Spec => []TypeOK
BY ServiceInvariant, PTL DEF ServiceInv

(* Whatever descriptors the kernel reuses and however threads are          *)
(* scheduled, a child serves the connection it was started for.            *)
THEOREM ServesOwn == Spec => []ServesOwnConnection
BY ServiceInvariant, PTL DEF ServiceInv

(* The member and the count are for one child at a time. *)
THEOREM OneHandoff == Spec => []OneHandoffAtATime
<1>1. ServiceInv => OneHandoffAtATime
  <2> SUFFICES ASSUME ServiceInv PROVE OneHandoffAtATime
    OBVIOUS
  <2>1. Pending = {} \/ Pending = {accepted}
    BY DEF ServiceInv, TypeOK, Turns
  <2>2. Cardinality(Pending) <= 1
    <3>1. Cardinality({}) = 0 /\ Cardinality({accepted}) = 1
      BY FS_EmptySet, FS_Singleton
    <3> QED
      BY <2>1, <3>1
  <2>3. boss = "accept" => mShareCount = 0 /\ Pending = {}
    BY DEF ServiceInv, Turns
  <2> QED
    BY <2>2, <2>3 DEF OneHandoffAtATime, Pending
<1> QED
    BY <1>1, ServiceInvariant, PTL
=============================================================================
