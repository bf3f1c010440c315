--------------------------- MODULE SocketIOProofs ---------------------------
(***************************************************************************)
(* Proofs about SocketConnect and SocketIO, for any numbers of attempts,   *)
(* lengths of messages and buffers: connect() returns connected unless it  *)
(* was asked for no attempt, and messages arrive and leave whole, however  *)
(* the kernel cuts them.                                                   *)
(***************************************************************************)
EXTENDS SocketIO, Integers, TLAPS

Reads == {"safeRead", "safeReadHttpRequest"}

IOTypeOK ==
    /\ call \in Reads \cup {"none", "safeWrite"}
    /\ io \in {"idle", "wait", "write", "returned", "thrown", "killed"}
    /\ timeout \in Nat
    /\ want \in Nat /\ at \in Nat
    /\ sent \in Nat /\ taken \in Nat
    /\ peer \in {"open", "closed", "reset"}
    /\ out \in Seq(Nat) /\ unread \in Nat
    /\ torn \subseteq {"in", "out"}
    /\ transfers \in Nat

(* A transfer is in progress only while connect() is not, and one of a     *)
(* message has been asked for the whole of it.                             *)
Transferring ==
    /\ InTransfer => ~InConnect /\ call # "none"
    /\ io = "write" => call = "safeWrite"
    /\ call \in {"safeRead", "safeWrite"} => want = Count

(* What each step of connect() owes to the next.  Only connect() without   *)
(* an attempt comes to its end with no timeout and no connection.          *)
Attempts ==
    /\ pc = "loop" => retry > 0 \/ errno = "ETIMEDOUT"
    /\ pc = "select" => mSocket = "open"
    /\ pc = "restore" => net = "established" /\ mSocket = "open"
    /\ pc = "conclude" => \/ errno = "ETIMEDOUT"
                          \/ net = "established" /\ mSocket = "open"
    /\ ReturnsConnected

(* ReadsWhole at every step: a call in progress began between messages,    *)
(* unless one before it has not.                                           *)
InOrder ==
    /\ call # "safeWrite" => \A k \in 1 .. at : buf[k] = taken - at + k
    /\ io = "returned" /\ call = "safeRead" => at = Count
    /\ "in" \notin torn =>
          (IF InTransfer /\ call \in Reads THEN taken - at ELSE taken) % Count = 0

(* WritesWhole at every step. *)
OutOrder ==
    "out" \notin torn =>
        /\ \A k \in 1 .. Len(out) : (k - out[k]) % Count = 0
        /\ (IF InTransfer /\ call = "safeWrite" THEN Len(out) - at ELSE Len(out)) % Count = 0

IOInv == TypeOK /\ IOTypeOK /\ Transferring
-----------------------------------------------------------------------------
(***************************************************************************)
(* Multiples of a length.                                                  *)
(***************************************************************************)
LEMMA Division ==
  ASSUME NEW a \in Int, NEW m \in Nat \ {0}
  PROVE  /\ a = ((a \div m) * m) + (a % m)
         /\ a % m \in 0 .. m - 1
         /\ a \div m \in Int
OBVIOUS

LEMMA NoMultipleBetween ==
  ASSUME NEW x \in Int, NEW m \in Nat \ {0}, x * m >= 0, x * m < m
  PROVE  x = 0
<1>1. CASE x >= 1
  <2>1. x * m >= m
    BY <1>1
  <2> QED
    BY <2>1
<1>2. CASE x <= -1
  <2>1. x * m <= -m
    BY <1>2
  <2> QED
    BY <2>1
<1> QED
    BY <1>1, <1>2

LEMMA Multiple ==
  ASSUME NEW q \in Int, NEW m \in Nat \ {0}
  PROVE  (q * m) % m = 0
<1> DEFINE a == q * m
           d == a \div m
           r == a % m
<1>0. a \in Int
    OBVIOUS
<1> HIDE DEF a
<1>1. a = (d * m) + r /\ r \in 0 .. m - 1 /\ d \in Int
    BY <1>0, Division
<1> HIDE DEF d, r
<1>2. (q - d) * m = r
    BY <1>1 DEF a
<1>3. q - d = 0
    BY <1>1, <1>2, NoMultipleBetween
<1>4. r = 0
    BY <1>1, <1>2, <1>3
<1> QED
    BY <1>4 DEF r, a

(* One more whole message leaves the stream between messages. *)
LEMMA OneMore ==
  ASSUME NEW a \in Int, NEW m \in Nat \ {0}, a % m = 0
  PROVE  (a + m) % m = 0
<1> DEFINE q == a \div m
<1>1. a = q * m /\ q \in Int
    BY Division
<1> HIDE DEF q
<1>2. a + m = (q + 1) * m /\ q + 1 \in Int
    BY <1>1
<1> QED
    BY <1>2, Multiple

LEMMA NothingIsWhole == 0 % Count = 0
<1>1. (0 * Count) % Count = 0
    BY IOAssumption, Multiple
<1> QED
    BY <1>1, IOAssumption
-----------------------------------------------------------------------------
(***************************************************************************)
(* Types.                                                                  *)
(***************************************************************************)
LEMMA InitIO == IOInit => IOInv /\ InOrder /\ OutOrder
<1> SUFFICES ASSUME IOInit PROVE IOInv /\ InOrder /\ OutOrder
    OBVIOUS
<1>1. TypeOK
  <2>1. {mBeConnected, nonblocking, flags} \subseteq BOOLEAN
    BY Zenon DEF IOInit, Init
  <2> QED
    BY <2>1, SocketAssumption DEF IOInit, Init, TypeOK
<1>2. IOTypeOK /\ Transferring
    BY DEF IOInit, IOTypeOK, Transferring, InTransfer, Reads
<1>3. InOrder /\ OutOrder
    BY NothingIsWhole DEF IOInit, InOrder, OutOrder, InTransfer
<1> QED
    BY <1>1, <1>2, <1>3 DEF IOInv

LEMMA NextTypeOK == TypeOK /\ Next => TypeOK'
<1> SUFFICES ASSUME TypeOK, Next PROVE TypeOK'
    OBVIOUS
<1> USE SocketAssumption DEF TypeOK
<1>1. CASE Connect \/ InitSocket \/ Loop
  <2>1. {mBeConnected', nonblocking', flags'} \subseteq BOOLEAN
    BY <1>1, Zenon DEF Connect, InitSocket, Loop
  <2>2. retry' \in Nat /\ conntimeo' \in Nat /\ calls' \in 0 .. MaxCalls
    <3>1. CASE Connect
      BY <3>1 DEF Connect, AtRest
    <3>2. CASE InitSocket
      BY <3>2 DEF InitSocket, AtRest
    <3>3. CASE Loop
      BY <3>3 DEF Loop
    <3> QED
      BY <1>1, <3>1, <3>2, <3>3
  <2> QED
    BY <1>1, <2>1, <2>2 DEF Connect, InitSocket, Loop
<1>2. CASE AttemptClosed \/ AttemptFails
    BY <1>2 DEF AttemptClosed, AttemptFails, Failed, CloseAndThrow, SetNonblocking, Reported
<1>3. CASE AttemptLinks \/ AttemptBegins
    BY <1>3 DEF AttemptLinks, AttemptBegins, SetNonblocking
<1>4. CASE SelectReady \/ SelectError \/ SelectInterrupted \/ SelectTimeout
    BY <1>4 DEF SelectReady, SelectError, SelectInterrupted, SelectTimeout,
                Failed, CloseAndThrow, Reported
<1>5. CASE Restore \/ Conclude \/ Handshake
    BY <1>5 DEF Restore, Conclude, CloseAndThrow, Handshake
<1> QED
    BY <1>1, <1>2, <1>3, <1>4, <1>5 DEF Next

(* What every end of a call that is not done does. *)
Errors == {errno, "ETIMEDOUT", "ECONNRESET", "ENOTCONN", "EBADF", "EPIPE"}

LEMMA FailsKeeps ==
  ASSUME NEW outcome \in {"thrown", "killed"}, NEW error \in Errors,
         NEW direction \in {"in", "out"},
         IOInv, InTransfer, Fails(outcome, error, direction)
  PROVE  IOInv'
<1>1. TypeOK'
    BY DEF IOInv, TypeOK, Fails, Errors
<1>2. IOTypeOK' /\ Transferring'
    BY DEF IOInv, IOTypeOK, Transferring, Fails, InTransfer, InConnect
<1> QED
    BY <1>1, <1>2 DEF IOInv

(* The steps that end a call like that. *)
Failing == \E outcome \in {"thrown", "killed"}, error \in Errors :
    /\ InTransfer
    /\ Fails(outcome, error, Direction)

LEMMA FailingSteps ==
  ASSUME IOInv,
         NotConnected \/ ReadNothing \/ ReadReset \/ ReadTimeout \/ WriteFails \/ WriteTimeout
  PROVE  Failing
<1> USE DEF Failing, InTransfer, Direction, Throws, Errors
<1>1. CASE NotConnected
    BY <1>1 DEF NotConnected, Reading, Writing
<1>2. CASE ReadNothing \/ ReadReset \/ ReadTimeout
    BY <1>2 DEF ReadNothing, ReadReset, ReadTimeout, Reading
<1>3. CASE WriteFails \/ WriteTimeout
    BY <1>3 DEF WriteFails, WriteTimeout, Writing, IOInv, Transferring
<1> QED
    BY <1>1, <1>2, <1>3

LEMMA NextIOInv == IOInv /\ [IONext]_allvars => IOInv'
<1> SUFFICES ASSUME IOInv, [IONext]_allvars PROVE IOInv'
    OBVIOUS
<1> USE DEF IOInv
<1>1. CASE Connecting
  <2>1. TypeOK'
    BY <1>1, NextTypeOK DEF Connecting
  <2>2. /\ call' = "none" /\ io' = "idle" /\ timeout' = 0 /\ want' = 0 /\ at' = 0
        /\ \/ UNCHANGED stream
           \/ /\ sent' = 0 /\ taken' = 0 /\ peer' = "open"
              /\ out' = <<>> /\ unread' = 0
              /\ torn' = {} /\ transfers' = 0
    BY <1>1 DEF Connecting
  <2>3. IOTypeOK'
    <3>1. CASE UNCHANGED stream
      BY <2>2, <3>1 DEF stream, IOTypeOK
    <3>2. CASE /\ sent' = 0 /\ taken' = 0 /\ peer' = "open"
               /\ out' = <<>> /\ unread' = 0
               /\ torn' = {} /\ transfers' = 0
      <4>1. <<>> \in Seq(Nat)
        OBVIOUS
      <4> QED
        BY <2>2, <3>2, <4>1 DEF IOTypeOK
    <3> QED
      BY <2>2, <3>1, <3>2
  <2>4. Transferring'
    BY <2>2 DEF Transferring, InTransfer
  <2> QED
    BY <2>1, <2>3, <2>4
<1>2. CASE CallRead \/ CallRequest \/ CallWrite
  <2>1. PICK name \in Reads \cup {"safeWrite"}, count \in Nat :
           /\ Calling(name, count)
           /\ name \in {"safeRead", "safeWrite"} => count = Count
    <3>1. Count \in Nat /\ Buffers \subseteq Nat
      BY IOAssumption
    <3> QED
      BY <1>2, <3>1 DEF CallRead, CallRequest, CallWrite, Reads
  <2>2. TypeOK'
    BY <2>1 DEF Calling, vars, TypeOK
  <2>3. IOTypeOK'
    BY <2>1, SocketAssumption DEF Calling, IOTypeOK
  <2>4. Transferring'
    BY <2>1 DEF Calling, vars, Transferring, InTransfer, InConnect, Reads
  <2> QED
    BY <2>2, <2>3, <2>4
<1>3. CASE NotConnected \/ ReadNothing \/ ReadReset \/ ReadTimeout \/ WriteFails \/ WriteTimeout
    BY <1>3, FailingSteps, FailsKeeps DEF Failing, Direction
<1>4. CASE ReadSome
  <2>1. TypeOK'
    BY <1>4 DEF ReadSome, vars, TypeOK
  <2>2. IOTypeOK' /\ Transferring'
    BY <1>4 DEF ReadSome, vars, IOTypeOK, Transferring, InTransfer, InConnect, Reading
  <2> QED
    BY <2>1, <2>2
<1>5. CASE WriteSome
  <2>1. TypeOK'
    BY <1>5 DEF WriteSome, vars, TypeOK
  <2>2. PICK n \in 1 .. want - at : /\ out' = out \o Handed(n)
                                    /\ unread' = unread + n
                                    /\ at' = at + n
    BY <1>5 DEF WriteSome
  <2>3. n \in Nat /\ Handed(n) \in Seq(Nat)
    BY <2>2 DEF Handed, IOTypeOK
  <2>4. out' \in Seq(Nat) /\ at' \in Nat /\ unread' \in Nat
    BY <2>2, <2>3 DEF IOTypeOK
  <2>5. IOTypeOK' /\ Transferring'
    BY <1>5, <2>4 DEF WriteSome, vars, IOTypeOK, Transferring, InTransfer, InConnect, Writing
  <2> QED
    BY <2>1, <2>5
<1>6. CASE WriteInterrupted
    BY <1>6 DEF WriteInterrupted, vars, stream, TypeOK, IOTypeOK, Transferring, InTransfer, InConnect
<1>7. CASE PeerSends \/ PeerReads \/ PeerLeaves
  <2>1. TypeOK'
    BY <1>7 DEF PeerSends, PeerReads, PeerLeaves, vars, TypeOK
  <2>2. IOTypeOK'
    <3>1. CASE PeerSends
      BY <3>1 DEF PeerSends, IOTypeOK
    <3>2. CASE PeerReads
      BY <3>2 DEF PeerReads, IOTypeOK
    <3>3. CASE PeerLeaves
      BY <3>3 DEF PeerLeaves, IOTypeOK
    <3> QED
      BY <1>7, <3>1, <3>2, <3>3
  <2>3. Transferring'
    BY <1>7 DEF PeerSends, PeerReads, PeerLeaves, vars, Transferring, InTransfer, InConnect
  <2> QED
    BY <2>1, <2>2, <2>3
<1>8. CASE UNCHANGED allvars
    BY <1>8 DEF allvars, iovars, vars, TypeOK, IOTypeOK, Transferring, InTransfer, InConnect
<1> QED
    BY <1>1, <1>2, <1>3, <1>4, <1>5, <1>6, <1>7, <1>8 DEF IONext, IOStep

LEMMA IOInvariant == IOSpec => []IOInv
BY InitIO, NextIOInv, PTL DEF IOSpec
-----------------------------------------------------------------------------
(***************************************************************************)
(* Connecting.                                                             *)
(***************************************************************************)
LEMMA NextAttempts ==
  ASSUME 0 \notin Retries, TypeOK, Attempts, Next
  PROVE  Attempts'
<1> USE SocketAssumption DEF TypeOK, Attempts, ReturnsConnected
<1>1. CASE Connect \/ InitSocket \/ Loop
  <2>1. CASE Connect
    <3>1. retry' \in Nat /\ retry' # 0 /\ pc' = "loop"
      BY <2>1 DEF Connect
    <3> QED
      BY <3>1
  <2>2. CASE InitSocket
    BY <2>2 DEF InitSocket
  <2>3. CASE Loop
    <3>1. (pc' = "conclude" /\ errno' = "ETIMEDOUT") \/ pc' = "attempt"
      BY <2>3 DEF Loop
    <3> QED
      BY <3>1
  <2> QED
    BY <1>1, <2>1, <2>2, <2>3
<1>2. CASE AttemptClosed \/ AttemptFails
    BY <1>2 DEF AttemptClosed, AttemptFails, Failed, CloseAndThrow
<1>3. CASE AttemptLinks \/ AttemptBegins
    BY <1>3 DEF AttemptLinks, AttemptBegins
<1>4. CASE SelectReady \/ SelectError \/ SelectInterrupted \/ SelectTimeout
    BY <1>4 DEF SelectReady, SelectError, SelectInterrupted, SelectTimeout,
                Failed, CloseAndThrow
<1>5. CASE Restore \/ Conclude \/ Handshake
    BY <1>5 DEF Restore, Conclude, CloseAndThrow, Handshake
<1> QED
    BY <1>1, <1>2, <1>3, <1>4, <1>5 DEF Next

LEMMA NextIOAttempts ==
  ASSUME 0 \notin Retries, IOInv, Attempts, [IONext]_allvars
  PROVE  Attempts'
<1>1. CASE Connecting
    BY <1>1, NextAttempts DEF Connecting, IOInv
<1>2. CASE NotConnected \/ ReadNothing \/ ReadReset \/ ReadTimeout \/ WriteFails \/ WriteTimeout
  <2>1. Failing /\ ~InConnect
    BY <1>2, FailingSteps DEF Failing, IOInv, Transferring
  <2> QED
    BY <2>1 DEF Failing, Fails, InConnect, Attempts, ReturnsConnected
<1>3. CASE UNCHANGED vars
    BY <1>3 DEF vars, Attempts, ReturnsConnected
<1> QED
    BY <1>1, <1>2, <1>3
    DEF IONext, IOStep, allvars, CallRead, CallRequest, CallWrite, Calling, ReadSome, WriteSome,
        WriteInterrupted, PeerSends, PeerReads, PeerLeaves
-----------------------------------------------------------------------------
(***************************************************************************)
(* Reading and writing.                                                    *)
(***************************************************************************)
LEMMA NextInOrder ==
  ASSUME IOInv, InOrder, [IONext]_allvars
  PROVE  InOrder'
<1> USE DEF IOInv, IOTypeOK, InOrder, InTransfer, Reads
<1>1. CASE Connecting
    BY <1>1, NothingIsWhole DEF Connecting, stream
<1>2. CASE CallRead \/ CallRequest \/ CallWrite
    BY <1>2 DEF CallRead, CallRequest, CallWrite, Calling
<1>3. CASE NotConnected \/ ReadNothing \/ ReadReset \/ ReadTimeout \/ WriteFails \/ WriteTimeout
  <2>1. Failing
    BY <1>3, FailingSteps
  <2> QED
    BY <2>1 DEF Failing, Fails, Direction
<1>4. CASE ReadSome
  <2>1. PICK n \in 1 .. want - at : /\ buf' = Received(n)
                                    /\ at' = at + n
                                    /\ taken' = taken + n
    BY <1>4 DEF ReadSome
  <2>2. call' = call /\ call \in Reads /\ want' = want
    BY <1>4 DEF ReadSome, Reading
  <2>3. \A k \in 1 .. at' : buf'[k] = taken' - at' + k
    BY <2>1, <2>2 DEF Received
  <2>4. io' = "returned" /\ call = "safeRead" => at' = Count
    BY <1>4, <2>2 DEF ReadSome, Complete, Transferring
  <2>5. ASSUME "in" \notin torn'
        PROVE (IF InTransfer' /\ call' \in Reads THEN taken' - at' ELSE taken') % Count = 0
    <3>1. (taken - at) % Count = 0 /\ taken' - at' = taken - at
      BY <1>4, <2>1, <2>2, <2>5 DEF ReadSome, Reading
    <3>2. CASE InTransfer'
      BY <2>2, <3>1, <3>2
    <3>3. CASE ~InTransfer' /\ call = "safeRead"
      <4>1. at' = Count
        BY <1>4, <2>4, <3>3 DEF ReadSome
      <4>2. taken' = (taken - at) + Count
        BY <2>1, <4>1, IOAssumption
      <4>3. taken' % Count = 0
        <5>1. taken - at \in Int /\ Count \in Nat \ {0}
          BY IOAssumption
        <5> QED
          BY <3>1, <4>2, <5>1, OneMore
      <4> QED
        BY <3>3, <4>3
    <3>4. CASE ~InTransfer' /\ call = "safeReadHttpRequest"
      BY <1>4, <2>5, <3>4 DEF ReadSome
    <3> QED
      BY <2>2, <3>2, <3>3, <3>4
  <2> QED
    BY <2>2, <2>3, <2>4, <2>5
<1>5. CASE WriteSome \/ WriteInterrupted
    BY <1>5 DEF WriteSome, WriteInterrupted, Writing, Transferring, stream
<1>6. CASE PeerSends \/ PeerReads \/ PeerLeaves
    BY <1>6 DEF PeerSends, PeerReads, PeerLeaves
<1>7. CASE UNCHANGED allvars
    BY <1>7 DEF allvars, iovars
<1> QED
    BY <1>1, <1>2, <1>3, <1>4, <1>5, <1>6, <1>7 DEF IONext, IOStep

LEMMA NextOutOrder ==
  ASSUME IOInv, OutOrder, [IONext]_allvars
  PROVE  OutOrder'
<1> USE DEF IOInv, IOTypeOK, OutOrder, InTransfer, Reads
<1>1. CASE Connecting
    BY <1>1, NothingIsWhole DEF Connecting, stream
<1>2. CASE CallRead \/ CallRequest \/ CallWrite
    BY <1>2 DEF CallRead, CallRequest, CallWrite, Calling
<1>3. CASE NotConnected \/ ReadNothing \/ ReadReset \/ ReadTimeout \/ WriteFails \/ WriteTimeout
  <2>1. Failing
    BY <1>3, FailingSteps
  <2> QED
    BY <2>1 DEF Failing, Fails, Direction
<1>4. CASE WriteSome
  <2>1. PICK n \in 1 .. want - at : /\ out' = out \o Handed(n)
                                    /\ at' = at + n
    BY <1>4 DEF WriteSome
  <2>2. /\ call = "safeWrite" /\ call' = call /\ want = Count
        /\ torn' = torn /\ InTransfer
    BY <1>4 DEF WriteSome, Writing, Transferring
  <2>3. Handed(n) \in Seq(Nat) /\ Len(Handed(n)) = n
    BY DEF Handed
  <2>4. /\ Len(out') = Len(out) + n
        /\ \A k \in 1 .. Len(out) : out'[k] = out[k]
        /\ \A k \in Len(out) + 1 .. Len(out) + n : out'[k] = at + (k - Len(out))
    BY <2>1, <2>3 DEF Handed
  <2>5. SUFFICES ASSUME "out" \notin torn
                 PROVE  /\ \A k \in 1 .. Len(out') : (k - out'[k]) % Count = 0
                        /\ (IF InTransfer' /\ call' = "safeWrite" THEN Len(out') - at'
                            ELSE Len(out')) % Count = 0
    BY <2>2
  <2>6. (Len(out) - at) % Count = 0
    BY <2>2, <2>5
  <2>7. ASSUME NEW k \in 1 .. Len(out') PROVE (k - out'[k]) % Count = 0
    <3>1. CASE k <= Len(out)
      BY <2>4, <2>5, <3>1
    <3>2. CASE k > Len(out)
      <4>1. k - out'[k] = Len(out) - at
        BY <2>4, <3>2
      <4> QED
        BY <2>6, <4>1
    <3> QED
      BY <3>1, <3>2
  <2>8. Len(out') - at' = Len(out) - at
    BY <2>1, <2>4
  <2>9. CASE InTransfer'
    BY <2>2, <2>6, <2>7, <2>8, <2>9
  <2>10. CASE ~InTransfer'
    <3>1. at' = Count
      BY <1>4, <2>2, <2>10 DEF WriteSome
    <3>2. Len(out') = (Len(out) - at) + Count
      <4>1. Len(out') \in Nat /\ Len(out) \in Nat /\ Count \in Nat
        BY IOAssumption
      <4> QED
        BY <2>8, <3>1, <4>1
    <3>3. Len(out) - at \in Int
      OBVIOUS
    <3>4. Len(out') % Count = 0
      BY <2>6, <3>2, <3>3, OneMore, IOAssumption
    <3> QED
      BY <2>7, <2>10, <3>4
  <2> QED
    BY <2>9, <2>10
<1>5. CASE ReadSome \/ WriteInterrupted
    BY <1>5 DEF ReadSome, WriteInterrupted, Reading, Transferring, stream
<1>6. CASE PeerSends \/ PeerReads \/ PeerLeaves
    BY <1>6 DEF PeerSends, PeerReads, PeerLeaves
<1>7. CASE UNCHANGED allvars
    BY <1>7 DEF allvars, iovars
<1> QED
    BY <1>1, <1>2, <1>3, <1>4, <1>5, <1>6, <1>7 DEF IONext, IOStep
-----------------------------------------------------------------------------
(* connect() and everything after it keep their types; errno is one of the *)
(* errors that the calls between set, or what was there at the beginning.  *)
THEOREM Typing == IOSpec => []TypeOK
BY IOInvariant, PTL DEF IOInv

(* connect() returns with a connection, whatever reads, writes and earlier *)
(* attempts left in errno, if it is asked for at least one attempt.        *)
THEOREM ConnectsOrThrows == ASSUME 0 \notin Retries
                            PROVE  IOSpec => []ReturnsConnected
<1>1. IOInit => Attempts
    BY DEF IOInit, Init, Attempts, ReturnsConnected
<1>2. IOInv /\ Attempts /\ [IONext]_allvars => Attempts'
    BY NextIOAttempts
<1>3. Attempts => ReturnsConnected
    BY DEF Attempts
<1> QED
    BY <1>1, <1>2, <1>3, IOInvariant, PTL DEF IOSpec

(* safeRead() returns whole messages, for any length of message, of buffer *)
(* and of the parts in which bytes arrive.                                 *)
THEOREM MessagesIn == IOSpec => []ReadsWhole
<1>1. IOInv /\ InOrder /\ [IONext]_allvars => InOrder'
    BY NextInOrder
<1>2. IOInv /\ InOrder => ReadsWhole
    BY DEF InOrder, ReadsWhole, InTransfer
<1> QED
    BY <1>1, <1>2, InitIO, IOInvariant, PTL DEF IOSpec

(* safeWrite() hands out whole messages, each byte once, for any length of *)
(* message and any parts that write(2) takes or is interrupted after.      *)
THEOREM MessagesOut == IOSpec => []WritesWhole
<1>1. IOInv /\ OutOrder /\ [IONext]_allvars => OutOrder'
    BY NextOutOrder
<1>2. IOInv /\ OutOrder => WritesWhole
    BY DEF OutOrder, WritesWhole, InTransfer
<1> QED
    BY <1>1, <1>2, InitIO, IOInvariant, PTL DEF IOSpec
=============================================================================
