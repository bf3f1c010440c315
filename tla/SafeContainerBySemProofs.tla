----------------------- MODULE SafeContainerBySemProofs -----------------------
(***************************************************************************)
(* Proofs about SafeContainerBySem, for any number of threads, any program *)
(* they follow and any bound on the items.                                 *)
(*                                                                         *)
(* TypeOK and MutualExclusion need each other (mMutexSem stays within      *)
(* {0, 1} because whoever posts it is inside) and the relation between pc  *)
(* and op; together they are inductive.  TokensMatchItems is inductive     *)
(* relative to them, and implies NeverEmptyAtTake.  The refinement also    *)
(* needs that every operation in progress is one of its thread's program   *)
(* (OwnProgram): the abstract container stores and takes what somebody may *)
(* call.  ExactlyOnce is proved of the atomic container, whose steps put   *)
(* one item into a sequence or take one out (With), and holds of the       *)
(* wrapper because its steps are steps of that container.                  *)
(***************************************************************************)
EXTENDS SafeContainerBySem, SequenceTheorems, FunctionTheorems, FiniteSetTheorems,
        TLAPS

(* A step belongs to the operation that the thread is in, and clear's loop *)
(* counter is positive inside the loop.                                    *)
StepsOfOperation ==
    \A t \in Threads :
        /\ pc[t] \in {"insert", "postSize"} => op[t] \in Puts
        /\ pc[t] \in {"waitSize", "read", "erase"} => op[t] \in Takes
        /\ pc[t] \in {"clearWait", "clearPop"} => value[t] > 0

MutexInv == TypeOK /\ StepsOfOperation /\ MutualExclusion

-----------------------------------------------------------------------------
(* n is c with item x at position p. *)
With(c, p, x, n) ==
    /\ p \in 1 .. Len(c) + 1
    /\ Len(n) = Len(c) + 1
    /\ n[p] = x
    /\ \A k \in 1 .. Len(c) : n[IF k < p THEN k ELSE k + 1] = c[k]

(* What is in a sequence with one item more, and that nothing in it is     *)
(* there twice, follow from the same of the sequence without it.           *)
LEMMA WithOneMore ==
  ASSUME NEW c \in Seq(Nat), NEW n \in Seq(Nat), NEW p, NEW x \in Nat, With(c, p, x, n)
  PROVE  /\ Range(n) = Range(c) \cup {x}
         /\ IsInjective(n) <=> IsInjective(c) /\ x \notin Range(c)
<1> DEFINE at(k) == IF k < p THEN k ELSE k + 1
<1>1. /\ p \in 1 .. Len(c) + 1 /\ Len(n) = Len(c) + 1 /\ n[p] = x
      /\ Len(c) \in Nat /\ DOMAIN c = 1 .. Len(c) /\ DOMAIN n = 1 .. Len(n)
  BY DEF With
<1>2. \A k \in 1 .. Len(c) : at(k) \in 1 .. Len(n) /\ at(k) # p /\ n[at(k)] = c[k]
  BY <1>1 DEF With
<1>3. \A j \in 1 .. Len(n) : j = p \/ \E k \in 1 .. Len(c) : at(k) = j
  <2> SUFFICES ASSUME NEW j \in 1 .. Len(n), j # p PROVE \E k \in 1 .. Len(c) : at(k) = j
    OBVIOUS
  <2>1. CASE j < p
    BY <1>1, <2>1
  <2>2. CASE j > p
    <3>1. j - 1 \in 1 .. Len(c) /\ at(j - 1) = j
      BY <1>1, <2>2
    <3> QED BY <3>1
  <2> QED BY <1>1, <2>1, <2>2
<1>4. \A k, l \in 1 .. Len(c) : at(k) = at(l) => k = l
  BY <1>1
<1> HIDE DEF at
<1>5. Range(n) = Range(c) \cup {x}
  <2>1. Range(n) \subseteq Range(c) \cup {x}
    <3> SUFFICES ASSUME NEW j \in 1 .. Len(n) PROVE n[j] \in Range(c) \cup {x}
      BY <1>1 DEF Range
    <3> QED BY <1>1, <1>2, <1>3 DEF Range
  <2>2. x \in Range(n)
    BY <1>1 DEF Range
  <2>3. Range(c) \subseteq Range(n)
    BY <1>1, <1>2 DEF Range
  <2> QED BY <2>1, <2>2, <2>3
<1>6. ASSUME IsInjective(n) PROVE IsInjective(c) /\ x \notin Range(c)
  <2>1. IsInjective(c)
    BY <1>1, <1>2, <1>4, <1>6 DEF IsInjective
  <2>2. \A k \in 1 .. Len(c) : c[k] # x
    BY <1>1, <1>2, <1>6 DEF IsInjective
  <2> QED BY <1>1, <2>1, <2>2 DEF Range
<1>7. ASSUME IsInjective(c), x \notin Range(c) PROVE IsInjective(n)
  <2>1. \A k \in 1 .. Len(c) : c[k] # x
    BY <1>1, <1>7 DEF Range
  <2>2. ASSUME NEW i \in 1 .. Len(n), NEW j \in 1 .. Len(n), n[i] = n[j] PROVE i = j
    <3>1. CASE i = p \/ j = p
      BY <1>1, <1>2, <1>3, <2>1, <2>2, <3>1
    <3>2. CASE i # p /\ j # p
      <4>1. PICK k \in 1 .. Len(c), l \in 1 .. Len(c) : at(k) = i /\ at(l) = j
        BY <1>3, <3>2
      <4>2. c[k] = c[l]
        BY <1>2, <2>2, <4>1
      <4> QED BY <1>1, <1>7, <4>1, <4>2 DEF IsInjective
    <3> QED BY <3>1, <3>2
  <2> QED BY <1>1, <2>2 DEF IsInjective
<1> QED BY <1>5, <1>6, <1>7

(* The sequence of the items delivered grows at its end. *)
LEMMA AppendedWith ==
  ASSUME NEW c \in Seq(Nat), NEW x \in Nat
  PROVE  Append(c, x) \in Seq(Nat) /\ With(c, Len(c) + 1, x, Append(c, x))
  BY DEF With

(* Storing an item puts it at one end ... *)
LEMMA InsertedWith ==
  ASSUME NEW c \in Seq(Nat), NEW o, NEW x \in Nat
  PROVE  /\ Inserted(c, o, x) \in Seq(Nat)
         /\ \E p : With(c, p, x, Inserted(c, o, x))
<1>1. CASE o = "push_front"
  <2>1. <<x>> \in Seq(Nat) /\ Len(<<x>>) = 1 /\ <<x>>[1] = x
    OBVIOUS
  <2>2. /\ <<x>> \o c \in Seq(Nat) /\ Len(<<x>> \o c) = 1 + Len(c)
        /\ \A k \in 1 .. Len(c) : (<<x>> \o c)[k + 1] = c[k]
        /\ (<<x>> \o c)[1] = x
    BY <2>1
  <2>3. With(c, 1, x, <<x>> \o c)
    BY <2>2 DEF With
  <2> QED BY <1>1, <2>2, <2>3 DEF Inserted
<1>2. CASE o # "push_front"
  BY <1>2, AppendedWith DEF Inserted
<1> QED BY <1>1, <1>2

(* ... and taking one out takes it from one. *)
LEMMA ErasedWith ==
  ASSUME NEW c \in Seq(Nat), c # <<>>, NEW o
  PROVE  /\ Chosen(c, o) \in Nat
         /\ Erased(c, o) \in Seq(Nat)
         /\ \E p : With(Erased(c, o), p, Chosen(c, o), c)
<1>1. Len(c) \in Nat /\ Len(c) > 0 /\ Head(c) = c[1]
  OBVIOUS
<1>2. Head(c) \in Nat /\ c[Len(c)] \in Nat
  BY <1>1
<1>3. CASE AtFront(o)
  <2>1. /\ Tail(c) \in Seq(Nat) /\ Len(Tail(c)) = Len(c) - 1
        /\ \A k \in 1 .. Len(c) - 1 : Tail(c)[k] = c[k + 1]
    BY <1>1
  <2>2. With(Tail(c), 1, Head(c), c)
    BY <1>1, <2>1 DEF With
  <2> QED BY <1>2, <1>3, <2>1, <2>2 DEF Chosen, Erased
<1>4. CASE ~AtFront(o)
  <2>1. PICK m \in Nat : m = Len(c) - 1
    BY <1>1
  <2>2. SubSeq(c, 1, m) = [i \in 1 .. m |-> c[i]]
    BY <1>1, <2>1, SubSeqRestrict DEF Restrict
  <2>3. SubSeq(c, 1, m) \in Seq(Nat) /\ Len(SubSeq(c, 1, m)) = m
    BY <1>1, <2>1, <2>2
  <2>4. With(SubSeq(c, 1, m), Len(c), c[Len(c)], c)
    BY <1>1, <2>1, <2>2, <2>3 DEF With
  <2> QED BY <1>2, <1>4, <2>1, <2>3, <2>4 DEF Chosen, Erased
<1> QED BY <1>3, <1>4

(* What both do to the type and the length of a container.                 *)
LEMMA InsertedType ==
  ASSUME NEW c \in Seq(Nat), NEW o, NEW i \in Nat
  PROVE  Inserted(c, o, i) \in Seq(Nat) /\ Len(Inserted(c, o, i)) = Len(c) + 1
  BY InsertedWith DEF With

LEMMA ErasedType ==
  ASSUME NEW c \in Seq(Nat), c # <<>>, NEW o
  PROVE  /\ Chosen(c, o) \in Nat
         /\ Erased(c, o) \in Seq(Nat)
         /\ Len(Erased(c, o)) = Len(c) - 1
  BY ErasedWith DEF With

-----------------------------------------------------------------------------
(* The semaphores start at 0 and 1, and no thread is inside. *)
LEMMA InitMutexInv == Init => MutexInv
  BY DEF Init, MutexInv, TypeOK, StepsOfOperation, MutualExclusion, Inside, InMutex

(* Every step keeps the mutex invariant. *)
LEMMA NextMutexInv == MutexInv /\ [Next]_vars => MutexInv'
<1> SUFFICES ASSUME MutexInv, [Next]_vars PROVE MutexInv'
  OBVIOUS
<1> USE DEF MutexInv, StepsOfOperation, MutualExclusion, Inside, InMutex, Goto
<1>0. CASE UNCHANGED vars
  BY <1>0 DEF vars, TypeOK
<1>a. ASSUME NEW t \in Threads, Call(t) PROVE MutexInv'
  <2>1. PICK o \in Program[t] : op' = [op EXCEPT ![t] = o]
                 /\ Goto(t, "idle", IF o \in Takes THEN "waitSize" ELSE "waitMutex")
    BY <1>a DEF Call
  <2>2. o \in Puts \cup Takes \cup {"clear"}
    BY <2>1, ProgramAssumption DEF Callable
  <2>3. TypeOK'
    BY <1>a, <2>1, <2>2 DEF Call, TypeOK
  <2>4. StepsOfOperation'
    BY <1>a, <2>1, <2>2 DEF Call, TypeOK
  <2>5. MutualExclusion'
    BY <1>a, <2>1 DEF Call, TypeOK
  <2> QED BY <2>3, <2>4, <2>5
<1>b. ASSUME NEW t \in Threads, WaitSize(t) PROVE MutexInv'
  BY <1>b DEF WaitSize, TypeOK
<1>c. ASSUME NEW t \in Threads, WaitMutex(t) PROVE MutexInv'
  <2>1. AfterMutex(op[t]) \in {"insert", "read", "getValue"}
    BY DEF AfterMutex
  <2>2. /\ AfterMutex(op[t]) = "insert" => op[t] \in Puts
        /\ AfterMutex(op[t]) = "read" => op[t] \in Takes
    BY DEF AfterMutex, Puts, Takes
  <2>3. TypeOK'
    BY <1>c, <2>1 DEF WaitMutex, TypeOK
  <2>4. StepsOfOperation'
    BY <1>c, <2>1, <2>2 DEF WaitMutex, TypeOK
  <2>5. MutualExclusion'
    BY <1>c, <2>1 DEF WaitMutex, TypeOK
  <2> QED BY <2>3, <2>4, <2>5
<1>d. ASSUME NEW t \in Threads, Insert(t) PROVE MutexInv'
  <2>1. Inserted(mContainer, op[t], stored + 1) \in Seq(Nat)
    BY InsertedType DEF TypeOK
  <2> QED BY <1>d, <2>1 DEF Insert, TypeOK
<1>e. ASSUME NEW t \in Threads, PostSize(t) PROVE MutexInv'
  BY <1>e DEF PostSize, TypeOK
<1>f. ASSUME NEW t \in Threads, Read(t) PROVE MutexInv'
  <2>1. Chosen(mContainer, op[t]) \in Nat
    BY <1>f, ErasedType DEF Read, TypeOK
  <2> QED BY <1>f, <2>1 DEF Read, TypeOK
<1>g. ASSUME NEW t \in Threads, Erase(t) PROVE MutexInv'
  <2>1. Erased(mContainer, op[t]) \in Seq(Nat)
    BY <1>g, ErasedType DEF Erase, TypeOK
  <2> QED BY <1>g, <2>1 DEF Erase, TypeOK
<1>h. ASSUME NEW t \in Threads, GetValue(t) PROVE MutexInv'
  BY <1>h DEF GetValue, TypeOK
<1>i. ASSUME NEW t \in Threads, ClearWait(t) PROVE MutexInv'
  BY <1>i DEF ClearWait, TypeOK
<1>j. ASSUME NEW t \in Threads, ClearPop(t) PROVE MutexInv'
  <2>1. /\ Erased(mContainer, "pop_back") \in Seq(Nat)
        /\ Chosen(mContainer, "pop_back") \in Nat
    BY <1>j, ErasedType DEF ClearPop, TypeOK
  <2>2. value[t] \in Nat /\ value[t] > 0 /\ value[t] - 1 \in Nat
    BY <1>j DEF ClearPop, TypeOK
  <2>3. TypeOK'
    BY <1>j, <2>1, <2>2 DEF ClearPop, TypeOK
  <2>4. StepsOfOperation'
    BY <1>j, <2>2 DEF ClearPop, TypeOK
  <2>5. MutualExclusion'
    BY <1>j DEF ClearPop, TypeOK
  <2> QED BY <2>3, <2>4, <2>5
<1>k. ASSUME NEW t \in Threads, PostMutex(t) PROVE MutexInv'
  BY <1>k DEF PostMutex, TypeOK
<1> QED
  BY <1>0, <1>a, <1>b, <1>c, <1>d, <1>e, <1>f, <1>g, <1>h, <1>i, <1>j, <1>k
     DEF Next, Step

(* Types, operations and exclusion together are inductive. *)
LEMMA MutexInvariant == Spec => []MutexInv
  BY InitMutexInv, NextMutexInv, PTL DEF Spec

(* The variables keep their types in every instance. *)
THEOREM Typing == Spec => []TypeOK
  BY MutexInvariant, PTL DEF MutexInv

(* mMutexSem admits one thread at a time, whatever the number of threads   *)
(* and whatever they call.                                                 *)
THEOREM Exclusion == Spec => []MutualExclusion
  BY MutexInvariant, PTL DEF MutexInv
-----------------------------------------------------------------------------
(* What each step does to the claimed and to the uncounted items.          *)
LEMMA ThreadSetsFinite ==
  /\ IsFiniteSet(Claims) /\ Cardinality(Claims) \in Nat
  /\ IsFiniteSet(Uncounted) /\ Cardinality(Uncounted) \in Nat
<1>1. Claims \in SUBSET Threads /\ Uncounted \in SUBSET Threads
  BY DEF Claims, Uncounted
<1>2. IsFiniteSet(Claims) /\ IsFiniteSet(Uncounted)
  BY <1>1, ThreadsAssumption, FS_Subset
<1> QED BY <1>2, FS_CardinalityType

(* No item, no token and no claim to begin with. *)
LEMMA InitTokens == Init => TokensMatchItems
<1> SUFFICES ASSUME Init PROVE TokensMatchItems
  OBVIOUS
<1>1. Claims = {} /\ Uncounted = {}
  BY DEF Init, Claims, Uncounted
<1>2. Len(mContainer) = 0 /\ mSizeSem = 0
  BY DEF Init
<1> QED BY <1>1, <1>2, FS_EmptySet DEF TokensMatchItems

(* Counting an item, claiming it and erasing it keep the balance.  Three   *)
(* steps move a thread into Claims or Uncounted together with one unit of  *)
(* mSizeSem or one item, three steps move it out.                          *)
LEMMA NextTokens == MutexInv /\ TokensMatchItems /\ [Next]_vars => TokensMatchItems'
<1> SUFFICES ASSUME MutexInv, TokensMatchItems, [Next]_vars PROVE TokensMatchItems'
  OBVIOUS
<1> DEFINE k == Cardinality(Claims)
           n == Cardinality(Uncounted)
<1>t. /\ mSizeSem \in Nat /\ mContainer \in Seq(Nat) /\ stored \in Nat
      /\ pc \in [Threads -> InMutex \cup {"idle", "waitSize", "waitMutex"}]
      /\ op \in [Threads -> Puts \cup Takes \cup {"clear", "none"}]
  BY DEF MutexInv, TypeOK
<1>n. k \in Nat /\ n \in Nat /\ Len(mContainer) \in Nat
  BY <1>t, ThreadSetsFinite
<1>q. Len(mContainer) = mSizeSem + k + n
  BY DEF TokensMatchItems
<1>s. \A t \in Threads : pc[t] \in {"waitSize", "read", "erase"} => op[t] \in Takes
  BY DEF MutexInv, StepsOfOperation
<1>m. \A t \in Threads : pc[t] \in {"insert", "postSize"} => op[t] \in Puts
  BY DEF MutexInv, StepsOfOperation
<1>d. Puts \cap Takes = {}
  BY DEF Puts, Takes
<1> USE DEF Goto
<1>0. CASE UNCHANGED vars
  BY <1>0 DEF vars, TokensMatchItems, Claims, Uncounted
<1>a. ASSUME NEW t \in Threads, Call(t) PROVE TokensMatchItems'
  <2>1. PICK o \in Program[t] : op' = [op EXCEPT ![t] = o]
                 /\ Goto(t, "idle", IF o \in Takes THEN "waitSize" ELSE "waitMutex")
    BY <1>a DEF Call
  <2>2. Claims' = Claims /\ Uncounted' = Uncounted
    BY <2>1, <1>t DEF Claims, Uncounted
  <2> QED BY <1>a, <2>2 DEF Call, TokensMatchItems
<1>b. ASSUME NEW t \in Threads, WaitSize(t) PROVE TokensMatchItems'
  <2>1. Claims' = Claims \cup {t} /\ t \notin Claims /\ Uncounted' = Uncounted
    BY <1>b, <1>t, <1>s DEF WaitSize, Claims, Uncounted
  <2>2. Cardinality(Claims') = k + 1
    BY <2>1, ThreadSetsFinite, FS_AddElement
  <2> QED BY <1>b, <2>1, <2>2, <1>n, <1>q, <1>t DEF WaitSize, TokensMatchItems
<1>c. ASSUME NEW t \in Threads, WaitMutex(t) PROVE TokensMatchItems'
  <2>1. /\ AfterMutex(op[t]) \in {"insert", "read", "getValue"}
        /\ AfterMutex(op[t]) = "read" <=> op[t] \in Takes
    BY <1>d DEF AfterMutex
  <2>2. Claims' = Claims /\ Uncounted' = Uncounted
    BY <1>c, <1>t, <2>1 DEF WaitMutex, Claims, Uncounted
  <2> QED BY <1>c, <2>2 DEF WaitMutex, TokensMatchItems
<1>e. ASSUME NEW t \in Threads, Insert(t) PROVE TokensMatchItems'
  <2>1. Uncounted' = Uncounted \cup {t} /\ t \notin Uncounted /\ Claims' = Claims
    BY <1>e, <1>t DEF Insert, Claims, Uncounted
  <2>2. Cardinality(Uncounted') = n + 1
    BY <2>1, ThreadSetsFinite, FS_AddElement
  <2>3. Len(mContainer') = Len(mContainer) + 1
    BY <1>e, <1>t, InsertedType DEF Insert
  <2> QED BY <1>e, <2>1, <2>2, <2>3, <1>n, <1>q, <1>t DEF Insert, TokensMatchItems
<1>f. ASSUME NEW t \in Threads, PostSize(t) PROVE TokensMatchItems'
  <2>1. Uncounted' = Uncounted \ {t} /\ t \in Uncounted /\ Claims' = Claims
    BY <1>f, <1>t DEF PostSize, Claims, Uncounted
  <2>2. Cardinality(Uncounted') = n - 1
    BY <2>1, ThreadSetsFinite, FS_RemoveElement
  <2> QED BY <1>f, <2>1, <2>2, <1>n, <1>q, <1>t DEF PostSize, TokensMatchItems
<1>g. ASSUME NEW t \in Threads, Read(t) PROVE TokensMatchItems'
  <2>1. Claims' = Claims /\ Uncounted' = Uncounted
    BY <1>g, <1>t DEF Read, Claims, Uncounted
  <2> QED BY <1>g, <2>1 DEF Read, TokensMatchItems
<1>h. ASSUME NEW t \in Threads, Erase(t) PROVE TokensMatchItems'
  <2>1. Claims' = Claims \ {t} /\ t \in Claims /\ Uncounted' = Uncounted
    BY <1>h, <1>t DEF Erase, Claims, Uncounted
  <2>2. Cardinality(Claims') = k - 1
    BY <2>1, ThreadSetsFinite, FS_RemoveElement
  <2>3. Len(mContainer') = Len(mContainer) - 1
    BY <1>h, <1>t, ErasedType DEF Erase
  <2> QED BY <1>h, <2>1, <2>2, <2>3, <1>n, <1>q, <1>t DEF Erase, TokensMatchItems
<1>i. ASSUME NEW t \in Threads, GetValue(t) PROVE TokensMatchItems'
  <2>1. Claims' = Claims /\ Uncounted' = Uncounted
    BY <1>i, <1>t DEF GetValue, Claims, Uncounted
  <2> QED BY <1>i, <2>1 DEF GetValue, TokensMatchItems
<1>j. ASSUME NEW t \in Threads, ClearWait(t) PROVE TokensMatchItems'
  <2>1. Claims' = Claims \cup {t} /\ t \notin Claims /\ Uncounted' = Uncounted
    BY <1>j, <1>t DEF ClearWait, Claims, Uncounted
  <2>2. Cardinality(Claims') = k + 1
    BY <2>1, ThreadSetsFinite, FS_AddElement
  <2> QED BY <1>j, <2>1, <2>2, <1>n, <1>q, <1>t DEF ClearWait, TokensMatchItems
<1>k. ASSUME NEW t \in Threads, ClearPop(t) PROVE TokensMatchItems'
  <2>1. Claims' = Claims \ {t} /\ t \in Claims /\ Uncounted' = Uncounted
    BY <1>k, <1>t DEF ClearPop, Claims, Uncounted
  <2>2. Cardinality(Claims') = k - 1
    BY <2>1, ThreadSetsFinite, FS_RemoveElement
  <2>3. Len(mContainer') = Len(mContainer) - 1
    BY <1>k, <1>t, ErasedType DEF ClearPop
  <2> QED BY <1>k, <2>1, <2>2, <2>3, <1>n, <1>q, <1>t DEF ClearPop, TokensMatchItems
<1>l. ASSUME NEW t \in Threads, PostMutex(t) PROVE TokensMatchItems'
  <2>1. Claims' = Claims /\ Uncounted' = Uncounted
    BY <1>l, <1>t DEF PostMutex, Claims, Uncounted
  <2> QED BY <1>l, <2>1 DEF PostMutex, TokensMatchItems
<1> QED
  BY <1>0, <1>a, <1>b, <1>c, <1>e, <1>f, <1>g, <1>h, <1>i, <1>j, <1>k, <1>l
     DEF Next, Step

(* The semaphore, the container and the threads' claims always agree.      *)
THEOREM Balance == Spec => []TokensMatchItems
  BY MutexInvariant, InitTokens, NextTokens, PTL DEF Spec

(* A claim is backed by an item, so a thread that reads has one to read.   *)
LEMMA ClaimIsBacked == TypeOK /\ TokensMatchItems => NeverEmptyAtTake
<1> SUFFICES ASSUME TypeOK, TokensMatchItems,
                    NEW t \in Threads, pc[t] \in {"read", "erase", "clearPop"}
             PROVE  mContainer # <<>>
  BY DEF NeverEmptyAtTake
<1>1. t \in Claims
  BY DEF Claims
<1>2. Cardinality(Claims) # 0
  BY <1>1, ThreadSetsFinite, FS_EmptySet
<1>3. Len(mContainer) # 0
  BY <1>2, ThreadSetsFinite DEF TokensMatchItems, TypeOK
<1> QED BY <1>3

(* No thread ever reads or erases in an empty container.                   *)
THEOREM NothingReadFromEmpty == Spec => []NeverEmptyAtTake
<1>1. MutexInv => TypeOK
  BY DEF MutexInv
<1> QED BY <1>1, MutexInvariant, Balance, ClaimIsBacked, PTL

-----------------------------------------------------------------------------
(* A thread inside an operation is inside one of its program's, and only   *)
(* clear() reads the semaphore's value and goes round its loop.            *)
OwnProgram ==
    \A t \in Threads :
        /\ pc[t] # "idle" => op[t] \in Program[t]
        /\ pc[t] \in {"getValue", "clearWait", "clearPop"} => op[t] = "clear"

(* Nobody has called anything at the beginning, and an operation is chosen *)
(* from its thread's program.                                              *)
LEMMA OwnProgramInvariant == Spec => []OwnProgram
<1>1. Init => OwnProgram
  BY DEF Init, OwnProgram
<1>2. TypeOK /\ OwnProgram /\ [Next]_vars => OwnProgram'
  <2> SUFFICES ASSUME TypeOK, OwnProgram, [Next]_vars PROVE OwnProgram'
    OBVIOUS
  <2>t. /\ pc \in [Threads -> InMutex \cup {"idle", "waitSize", "waitMutex"}]
        /\ op \in [Threads -> Puts \cup Takes \cup {"clear", "none"}]
    BY DEF TypeOK
  <2> USE DEF OwnProgram, Goto
  <2>0. CASE UNCHANGED vars
    BY <2>0 DEF vars
  <2>a. ASSUME NEW t \in Threads, Call(t) PROVE OwnProgram'
    BY <2>a, <2>t DEF Call
  <2>b. ASSUME NEW t \in Threads, WaitSize(t) PROVE OwnProgram'
    BY <2>b, <2>t DEF WaitSize
  <2>c. ASSUME NEW t \in Threads, WaitMutex(t) PROVE OwnProgram'
    <3>1. op[t] \in Callable
      BY <2>c, ProgramAssumption DEF WaitMutex
    <3>2. /\ AfterMutex(op[t]) \in {"insert", "read", "getValue"}
          /\ AfterMutex(op[t]) = "getValue" => op[t] = "clear"
      BY <3>1 DEF AfterMutex, Callable, Puts, Takes
    <3> QED BY <2>c, <2>t, <3>2 DEF WaitMutex
  <2>d. ASSUME NEW t \in Threads, Insert(t) PROVE OwnProgram'
    BY <2>d, <2>t DEF Insert
  <2>e. ASSUME NEW t \in Threads, PostSize(t) PROVE OwnProgram'
    BY <2>e, <2>t DEF PostSize
  <2>f. ASSUME NEW t \in Threads, Read(t) PROVE OwnProgram'
    BY <2>f, <2>t DEF Read
  <2>g. ASSUME NEW t \in Threads, Erase(t) PROVE OwnProgram'
    BY <2>g, <2>t DEF Erase
  <2>h. ASSUME NEW t \in Threads, GetValue(t) PROVE OwnProgram'
    BY <2>h, <2>t DEF GetValue
  <2>i. ASSUME NEW t \in Threads, ClearWait(t) PROVE OwnProgram'
    BY <2>i, <2>t DEF ClearWait
  <2>j. ASSUME NEW t \in Threads, ClearPop(t) PROVE OwnProgram'
    BY <2>j, <2>t DEF ClearPop
  <2>k. ASSUME NEW t \in Threads, PostMutex(t) PROVE OwnProgram'
    BY <2>k, <2>t DEF PostMutex
  <2> QED
    BY <2>0, <2>a, <2>b, <2>c, <2>d, <2>e, <2>f, <2>g, <2>h, <2>i, <2>j, <2>k
       DEF Next, Step
<1> QED BY <1>1, <1>2, Typing, PTL DEF Spec

(* At most one thread is between its reading and its erasing, so what the  *)
(* callers see is well defined.                                            *)
LEMMA ContentsAre ==
  ASSUME MutualExclusion, NEW t \in Threads, pc[t] \in InMutex
  PROVE  Contents = IF pc[t] = "erase" THEN Erased(mContainer, op[t]) ELSE mContainer
<1>1. Erasing = IF pc[t] = "erase" THEN {t} ELSE {}
  BY DEF MutualExclusion, Inside, InMutex, Erasing
<1>2. (CHOOSE u \in {t} : TRUE) = t
  OBVIOUS
<1> QED BY <1>1, <1>2 DEF Contents

(* The same of the state after a step. *)
LEMMA ContentsWillBe ==
  ASSUME MutualExclusion', NEW t \in Threads, pc'[t] \in InMutex
  PROVE  Contents' = IF pc'[t] = "erase" THEN Erased(mContainer', op'[t]) ELSE mContainer'
<1>1. Erasing' = IF pc'[t] = "erase" THEN {t} ELSE {}
  BY DEF MutualExclusion, Inside, InMutex, Erasing
<1>2. (CHOOSE u \in {t} : TRUE) = t
  OBVIOUS
<1> QED BY <1>1, <1>2 DEF Contents

(* A step of a thread is a step of the atomic container, or none: an       *)
(* insertion is a Store, a reading is a Take, each turn of clear's loop is *)
(* a Clear of one item, and no other step is visible to the callers.       *)
LEMMA StepIsAtomic ==
  ASSUME MutexInv, MutexInv', OwnProgram, [Next]_vars
  PROVE  [Abstract!Next]_<<Contents, stored, delivered, discarded>>
<1> DEFINE avars == <<Contents, stored, delivered, discarded>>
           offered == UNION {Program[u] : u \in Threads}
<1>t. /\ pc \in [Threads -> InMutex \cup {"idle", "waitSize", "waitMutex"}]
      /\ op \in [Threads -> Puts \cup Takes \cup {"clear", "none"}]
      /\ mContainer \in Seq(Nat)
      /\ \A t \in Threads : /\ pc[t] = "insert" => op[t] \in Puts
                            /\ pc[t] \in {"read", "erase"} => op[t] \in Takes
  BY DEF MutexInv, TypeOK, StepsOfOperation
<1>m. MutualExclusion /\ MutualExclusion'
  BY DEF MutexInv
<1>o. \A t \in Threads : pc[t] # "idle" => op[t] \in offered
  BY DEF OwnProgram
<1> USE DEF Goto
<1>same. ASSUME mContainer' = mContainer, Erasing' = Erasing,
                \A u \in Threads : pc[u] = "erase" => op'[u] = op[u]
         PROVE  Contents' = Contents
  <2>1. CASE Erasing = {}
    BY <2>1, <1>same DEF Contents
  <2>2. CASE Erasing # {}
    <3>1. PICK u \in Threads : pc[u] = "erase"
      BY <2>2 DEF Erasing
    <3>2. pc'[u] = "erase"
      BY <3>1, <1>same DEF Erasing
    <3> QED BY <3>1, <3>2, <1>same, <1>m, ContentsAre, ContentsWillBe DEF InMutex
  <2> QED BY <2>1, <2>2
<1>0. CASE UNCHANGED vars
  BY <1>0 DEF vars, Contents, Erasing
<1>1. ASSUME NEW t \in Threads, Insert(t) PROVE Abstract!Next
  <2>1. Contents = mContainer /\ Contents' = mContainer'
    BY <1>1, <1>t, <1>m, ContentsAre, ContentsWillBe DEF Insert, InMutex
  <2>2. Abstract!Store(op[t])
    BY <1>1, <2>1 DEF Insert, Abstract!Store, Abstract!Inserted, Inserted
  <2>3. op[t] \in Puts \cap offered
    BY <1>1, <1>t, <1>o DEF Insert
  <2> QED BY <2>2, <2>3 DEF Abstract!Next, Abstract!Puts, Puts
<1>2. ASSUME NEW t \in Threads, Read(t) PROVE Abstract!Next
  <2>1. Contents = mContainer /\ Contents' = Erased(mContainer, op[t])
    BY <1>2, <1>t, <1>m, ContentsAre, ContentsWillBe DEF Read, InMutex
  <2>2. Abstract!Take(op[t])
    BY <1>2, <2>1 DEF Read, Abstract!Take, Abstract!Chosen, Chosen, Abstract!Erased, Erased,
                      Abstract!AtFront, AtFront
  <2>3. op[t] \in Takes \cap offered
    BY <1>2, <1>t, <1>o DEF Read
  <2> QED BY <2>2, <2>3 DEF Abstract!Next, Abstract!Takes, Takes
<1>3. ASSUME NEW t \in Threads, ClearPop(t) PROVE Abstract!Next
  <2>1. Contents = mContainer /\ Contents' = mContainer'
    BY <1>3, <1>t, <1>m, ContentsAre, ContentsWillBe DEF ClearPop, InMutex
  <2>2. PICK n \in 1 .. Len(mContainer) : n = Len(mContainer)
    BY <1>3, <1>t DEF ClearPop
  <2>3. /\ mContainer' = SubSeq(mContainer, 1, n - 1)
        /\ discarded' = discarded \cup {mContainer[n]}
    BY <1>3, <2>2 DEF ClearPop, Chosen, Erased, AtFront
  <2>4. {mContainer[i] : i \in n .. Len(mContainer)} = {mContainer[n]}
    BY <2>2, <1>t
  <2>5. Abstract!Clear
    BY <1>3, <2>1, <2>3, <2>4 DEF ClearPop, Abstract!Clear
  <2>6. "clear" \in offered
    BY <1>3, <1>o DEF ClearPop, OwnProgram
  <2> QED BY <2>5, <2>6 DEF Abstract!Next
<1>4. ASSUME NEW t \in Threads, Erase(t) PROVE UNCHANGED avars
  BY <1>4, <1>t, <1>m, ContentsAre, ContentsWillBe DEF Erase, InMutex
<1>5. ASSUME NEW t \in Threads,
             \/ Call(t) \/ WaitSize(t) \/ WaitMutex(t) \/ PostSize(t) \/ GetValue(t)
             \/ ClearWait(t) \/ PostMutex(t)
      PROVE  UNCHANGED avars
  <2>0. AfterMutex(op[t]) # "erase"
    BY DEF AfterMutex
  <2>1. Erasing' = Erasing /\ mContainer' = mContainer
    BY <1>5, <1>t, <2>0
       DEF Call, WaitSize, WaitMutex, PostSize, GetValue, ClearWait, PostMutex, Erasing
  <2>2. \A u \in Threads : pc[u] = "erase" => op'[u] = op[u]
    BY <1>5, <1>t DEF Call, WaitSize, WaitMutex, PostSize, GetValue, ClearWait, PostMutex
  <2>3. UNCHANGED <<stored, delivered, discarded>>
    BY <1>5 DEF Call, WaitSize, WaitMutex, PostSize, GetValue, ClearWait, PostMutex
  <2> QED BY <2>1, <2>2, <2>3, <1>same
<1> QED
  BY <1>0, <1>1, <1>2, <1>3, <1>4, <1>5 DEF Next, Step

(* Both are empty at the beginning. *)
LEMMA InitIsAtomic == Init => Abstract!Init
  BY DEF Init, Abstract!Init, Contents, Erasing

(* The wrapper implements the atomic container of AbstractContainer.       *)
THEOREM Atomic == Spec => ImplementsAtomicContainer
  BY InitIsAtomic, StepIsAtomic, MutexInvariant, OwnProgramInvariant, PTL
     DEF Spec, ImplementsAtomicContainer, Abstract!Spec

-----------------------------------------------------------------------------
(***************************************************************************)
(* ExactlyOnce is an invariant of the atomic container, and the wrapper    *)
(* has it by StepIsAtomic.                                                 *)
(***************************************************************************)
(* The numbers 1 .. s are divided between what is contained, what is       *)
(* delivered and what is discarded, and occur once.                        *)
Accounted(c, d, x, s) ==
    /\ c \in Seq(Nat) /\ d \in Seq(Nat) /\ s \in Nat
    /\ IsInjective(c) /\ IsInjective(d)
    /\ Range(c) \cup Range(d) \cup x = 1 .. s
    /\ Range(c) \cap Range(d) = {}
    /\ Range(c) \cap x = {}
    /\ Range(d) \cap x = {}

(* The next number goes into the container ... *)
LEMMA StoreAccounted ==
  ASSUME NEW c, NEW d, NEW x, NEW s, NEW o, Accounted(c, d, x, s)
  PROVE  Accounted(Inserted(c, o, s + 1), d, x, s + 1)
<1> DEFINE n == Inserted(c, o, s + 1)
<1>1. c \in Seq(Nat) /\ s \in Nat /\ s + 1 \in Nat
  BY DEF Accounted
<1>2. n \in Seq(Nat)
  BY <1>1, InsertedWith
<1>3. PICK p : With(c, p, s + 1, n)
  BY <1>1, InsertedWith
<1>4. /\ Range(n) = Range(c) \cup {s + 1}
      /\ IsInjective(n) <=> IsInjective(c) /\ s + 1 \notin Range(c)
  BY <1>1, <1>2, <1>3, WithOneMore
<1> HIDE DEF n
<1>5. 1 .. s + 1 = (1 .. s) \cup {s + 1} /\ s + 1 \notin 1 .. s
  BY <1>1
<1>6. s + 1 \notin Range(c) /\ s + 1 \notin Range(d) /\ s + 1 \notin x
  BY <1>5 DEF Accounted
<1>7. Accounted(n, d, x, s + 1)
  BY <1>1, <1>2, <1>4, <1>5, <1>6 DEF Accounted
<1> QED BY <1>7 DEF n

(* ... one of its numbers moves to the callers ... *)
LEMMA TakeAccounted ==
  ASSUME NEW c, NEW d, NEW x, NEW s, NEW o, Accounted(c, d, x, s), c # <<>>
  PROVE  Accounted(Erased(c, o), Append(d, Chosen(c, o)), x, s)
<1> DEFINE i == Chosen(c, o)
           n == Erased(c, o)
           e == Append(d, i)
<1>1. c \in Seq(Nat) /\ d \in Seq(Nat) /\ s \in Nat
  BY DEF Accounted
<1>2. n \in Seq(Nat) /\ i \in Nat /\ \E p : With(n, p, i, c)
  BY <1>1, ErasedWith
<1>3. e \in Seq(Nat) /\ With(d, Len(d) + 1, i, e)
  BY <1>1, <1>2, AppendedWith
<1> HIDE DEF i, n, e
<1>4. /\ Range(c) = Range(n) \cup {i}
      /\ IsInjective(c) <=> IsInjective(n) /\ i \notin Range(n)
  BY <1>1, <1>2, WithOneMore
<1>5. /\ Range(e) = Range(d) \cup {i}
      /\ IsInjective(e) <=> IsInjective(d) /\ i \notin Range(d)
  BY <1>1, <1>2, <1>3, WithOneMore
<1>6. Accounted(n, e, x, s)
  BY <1>1, <1>2, <1>3, <1>4, <1>5 DEF Accounted
<1> QED BY <1>6 DEF i, n, e

(* ... or those at its end are discarded.  *)
LEMMA ClearAccounted ==
  ASSUME NEW c, NEW d, NEW x, NEW s, Accounted(c, d, x, s), NEW n \in 1 .. Len(c)
  PROVE  Accounted(SubSeq(c, 1, n - 1), d, x \cup {c[i] : i \in n .. Len(c)}, s)
<1> DEFINE q == SubSeq(c, 1, n - 1)
           y == {c[i] : i \in n .. Len(c)}
<1>1. c \in Seq(Nat) /\ d \in Seq(Nat) /\ s \in Nat /\ Len(c) \in Nat /\ DOMAIN c = 1 .. Len(c)
  BY DEF Accounted
<1>2. PICK m \in Nat : m = n - 1
  BY <1>1
<1>3. q = [i \in 1 .. m |-> c[i]]
  BY <1>1, <1>2, SubSeqRestrict DEF Restrict
<1>4. q \in Seq(Nat) /\ DOMAIN q = 1 .. m
  BY <1>1, <1>2, <1>3
<1>5. IsInjective(q)
  BY <1>1, <1>2, <1>3, <1>4 DEF Accounted, IsInjective
<1>6. Range(c) = Range(q) \cup y
  <2>1. Range(q) = {c[i] : i \in 1 .. m}
    BY <1>3, <1>4 DEF Range
  <2>2. 1 .. Len(c) = (1 .. m) \cup (n .. Len(c))
    BY <1>1, <1>2
  <2> QED BY <1>1, <2>1, <2>2 DEF Range
<1>7. Range(q) \cap y = {}
  <2>1. \A i \in 1 .. m, j \in n .. Len(c) : i \in DOMAIN c /\ j \in DOMAIN c /\ i # j
    BY <1>1, <1>2
  <2>2. \A i \in 1 .. m, j \in n .. Len(c) : c[i] # c[j]
    BY <2>1 DEF Accounted, IsInjective
  <2> QED BY <1>3, <1>4, <2>2 DEF Range
<1> HIDE DEF q, y
<1>8. Accounted(q, d, x \cup y, s)
  BY <1>1, <1>4, <1>5, <1>6, <1>7 DEF Accounted
<1> QED BY <1>8 DEF q, y

(* A sequence that repeats nothing is as long as its range is large.       *)
LEMMA DistinctLength ==
  ASSUME NEW S, NEW q \in Seq(S), \A i, j \in DOMAIN q : q[i] = q[j] => i = j
  PROVE  Len(q) = Cardinality(Range(q))
<1>1. Len(q) \in Nat /\ DOMAIN q = 1 .. Len(q)
  OBVIOUS
<1>2. Range(q) = {q[i] : i \in 1 .. Len(q)}
  BY <1>1 DEF Range
<1> DEFINE f == [i \in 1 .. Len(q) |-> q[i]]
<1>3. f \in Bijection(1 .. Len(q), Range(q))
  <2>1. f \in [1 .. Len(q) -> Range(q)]
    BY <1>2
  <2>2. \A i, j \in 1 .. Len(q) : f[i] = f[j] => i = j
    BY <1>1
  <2>3. \A y \in Range(q) : \E i \in 1 .. Len(q) : f[i] = y
    BY <1>2
  <2> QED BY <2>1, <2>2, <2>3, Fun_IsBij
<1>4. ExistsBijection(1 .. Len(q), Range(q))
  BY <1>3 DEF ExistsBijection
<1>5. IsFiniteSet(1 .. Len(q)) /\ Cardinality(1 .. Len(q)) = Len(q)
  BY <1>1, FS_Interval
<1> QED BY <1>4, <1>5, FS_Bijection

(* The accounts of the wrapper, as its callers see it. *)
AllAccounted == Accounted(Contents, delivered, discarded, stored)

(* They stay so over every step of it. *)
LEMMA AbstractStepAccounted ==
  ASSUME AllAccounted, [Abstract!Next]_<<Contents, stored, delivered, discarded>>
  PROVE  AllAccounted'
<1> USE DEF AllAccounted
<1>1. CASE UNCHANGED <<Contents, stored, delivered, discarded>>
  BY <1>1 DEF Accounted
<1>2. ASSUME NEW o, Abstract!Store(o) PROVE AllAccounted'
  BY <1>2, StoreAccounted DEF Abstract!Store, Abstract!Inserted, Inserted
<1>3. ASSUME NEW o, Abstract!Take(o) PROVE AllAccounted'
  BY <1>3, TakeAccounted
     DEF Abstract!Take, Abstract!Chosen, Chosen, Abstract!Erased, Erased,
         Abstract!AtFront, AtFront
<1>4. CASE Abstract!Clear
  BY <1>4, ClearAccounted DEF Abstract!Clear
<1> QED BY <1>1, <1>2, <1>3, <1>4 DEF Abstract!Next

(* Every item ever stored is in the container, or was handed to exactly    *)
(* one caller, or was discarded by clear.                                  *)
THEOREM NothingLostOrDoubled == Spec => []ExactlyOnce
<1>1. Init => AllAccounted
  <2> SUFFICES ASSUME Init PROVE AllAccounted
    OBVIOUS
  <2>1. Contents = <<>> /\ delivered = <<>> /\ stored = 0 /\ discarded = {}
    BY InitIsAtomic DEF Abstract!Init
  <2>2. <<>> \in Seq(Nat) /\ DOMAIN <<>> = {}
    OBVIOUS
  <2>3. Range(<<>>) = {} /\ IsInjective(<<>>)
    BY <2>2 DEF Range, IsInjective
  <2> QED BY <2>1, <2>2, <2>3 DEF AllAccounted, Accounted
<1>2. MutexInv /\ MutexInv' /\ OwnProgram /\ AllAccounted /\ [Next]_vars => AllAccounted'
  BY StepIsAtomic, AbstractStepAccounted
<1>3. AllAccounted => ExactlyOnce
  <2> SUFFICES ASSUME AllAccounted PROVE ExactlyOnce
    OBVIOUS
  <2>1. Len(delivered) = Cardinality(Range(delivered))
    BY DistinctLength DEF AllAccounted, Accounted, IsInjective
  <2> QED BY <2>1 DEF AllAccounted, Accounted, ExactlyOnce
<1> QED BY <1>1, <1>2, <1>3, MutexInvariant, OwnProgramInvariant, PTL DEF Spec
=============================================================================
