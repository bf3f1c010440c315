------------------------------ MODULE SocketIO ------------------------------
(***************************************************************************)
(* net/std_socket.cpp: safeRead(), safeReadHttpRequest() and safeWrite()   *)
(* over the connection that SocketConnect makes, breaks and makes again.   *)
(* Each of them waits with select() or poll() until the socket is ready,   *)
(* transfers what it can, and goes on until the caller's buffer is done.   *)
(* What they leave in errno is what the next connect() finds there.        *)
(*                                                                         *)
(* The peer sends messages of Count bytes; the k-th byte it sends over a   *)
(* connection is the number k, the k-th byte of each message the client    *)
(* writes is k.  The last byte of a message stands for its blank line.     *)
(* A wait and the transfer that follows it are one step: nothing that the  *)
(* peer does can make a ready socket unready.                              *)
(***************************************************************************)
EXTENDS SocketConnect, Sequences

CONSTANTS Count,              \* the length of a message
          Buffers,            \* the lengths of buffer for a request
          Room,               \* what the kernel holds for a peer that does not read
          MaxBytes,           \* bound on the bytes sent over a connection
          MaxTransfers        \* bound on the calls made over a connection

ASSUME IOAssumption == /\ Count \in Nat \ {0} /\ Buffers \subseteq Nat \ {0}
                       /\ {Room, MaxBytes, MaxTransfers} \subseteq Nat

VARIABLES call,               \* the last call: "none" or its name
          io,                 \* "idle", "wait", "write" (in write(2)), "returned",
                              \* "thrown", or "killed": the process has got SIGPIPE
          timeout,            \* mReadTimeout or mWriteTimeout; 0: no timeout
          want,               \* count, the bytes it was asked for
          buf,                \* its buffer: the bytes at 1 .. at are there
          at,                 \* how far it has advanced in buf
          sent, taken,        \* bytes the peer has sent, bytes the client has read
          peer,               \* "open", "closed" or "reset"
          out,                \* bytes the kernel has taken from the client
          unread,             \* how many of them the peer has not read
          torn,               \* directions in which a call has ended inside a message
          transfers           \* calls over this connection

stream == <<sent, taken, peer, out, unread, torn, transfers>>
iovars == <<call, io, timeout, want, buf, at, sent, taken, peer, out, unread, torn, transfers>>
allvars == <<vars, iovars>>

Empty == [k \in {} |-> 0]

IOInit == /\ Init
          /\ call = "none" /\ io = "idle" /\ timeout = 0
          /\ want = 0 /\ at = 0 /\ buf = Empty
          /\ sent = 0 /\ taken = 0 /\ peer = "open"
          /\ out = <<>> /\ unread = 0
          /\ torn = {} /\ transfers = 0

(***************************************************************************)
(* Connecting: a connection that is new, or gone, has an empty stream.     *)
(***************************************************************************)
Connecting ==
    /\ io \notin {"wait", "write", "killed"}
    /\ Next
    /\ call' = "none" /\ io' = "idle" /\ timeout' = 0 /\ want' = 0 /\ at' = 0 /\ buf' = Empty
    /\ IF net = "established" /\ net' = "established" THEN UNCHANGED stream
       ELSE /\ sent' = 0 /\ taken' = 0 /\ peer' = "open"
            /\ out' = <<>> /\ unread' = 0
            /\ torn' = {} /\ transfers' = 0

(***************************************************************************)
(* The calls, after setReadTimeout() or setWriteTimeout().                 *)
(***************************************************************************)
Calling(name, count) ==
    /\ pc \in {"new", "returned", "thrown"} /\ io \notin {"wait", "write", "killed"}
    /\ transfers < MaxTransfers
    /\ transfers' = transfers + 1
    /\ call' = name /\ want' = count /\ timeout' \in Timeouts
    /\ io' = "wait" /\ at' = 0 /\ buf' = Empty
    /\ UNCHANGED <<vars, sent, taken, peer, out, unread, torn>>

CallRead    == Calling("safeRead", Count)
CallRequest == \E count \in Buffers : Calling("safeReadHttpRequest", count)
CallWrite   == Calling("safeWrite", Count)

Reading == io = "wait" /\ call \in {"safeRead", "safeReadHttpRequest"}
Writing == io = "wait" /\ call = "safeWrite"

Connected == mSocket = "open" /\ net = "established"

(* A call ends before it is done: the bytes already moved are lost to the  *)
(* caller.                                                                 *)
Fails(outcome, error, direction) ==
    /\ io' = outcome
    /\ errno' = error
    /\ torn' = IF at > 0 THEN torn \cup {direction} ELSE torn
    /\ UNCHANGED <<mSocket, mBeConnected, nonblocking, flags, net, retry, conntimeo, pc, calls,
                   call, timeout, want, buf, at, sent, taken, peer, out, unread, transfers>>

(* A SocketException, with error in errno (or what was there before). *)
Throws(error, direction) == Fails("thrown", error, direction)

Direction == IF call = "safeWrite" THEN "out" ELSE "in"

(* The descriptor is -1, or the socket was never connected. *)
NotConnected == /\ Reading \/ Writing
                /\ ~Connected
                /\ Throws(IF mSocket = "closed" THEN "EBADF" ELSE "ENOTCONN", Direction)

(***************************************************************************)
(* Reading.                                                                *)
(***************************************************************************)
(* A read() into the start of the buffer, whatever is there already. *)
FrozenReceived(n) ==
    [k \in 1 .. at + n |-> IF k <= n THEN taken + k ELSE IF k <= at THEN buf[k] ELSE 0]

Received(n) == [k \in 1 .. at + n |-> IF k <= at THEN buf[k] ELSE taken + k - at]

(* safeRead() is complete when count has come down to zero, a request when *)
(* its blank line is in the buffer.                                        *)
Complete(b, n) == IF call = "safeRead" THEN n = want
                  ELSE \E k \in 1 .. n : b[k] % Count = 0

(* read() of what is there, or of part of it.  What follows the blank line *)
(* of a request is thrown away with the buffer.  (When a request fills its *)
(* buffer, its closing NUL is written one byte beyond: not modelled.)      *)
ReadSome ==
    /\ Reading /\ Connected /\ peer # "reset"
    /\ \E n \in 1 .. want - at :
         /\ n <= sent - taken
         /\ buf' = Received(n)
         /\ at' = at + n
         /\ taken' = taken + n
    /\ io' \in IF ~Complete(buf', at') THEN {"wait"}
               ELSE IF call = "safeRead" THEN {"returned"}
               ELSE {"returned", "thrown"}            \* a request without an argument
    /\ torn' = IF io' # "wait" /\ call = "safeReadHttpRequest" /\ taken' % Count # 0
               THEN torn \cup {"in"} ELSE torn
    /\ UNCHANGED <<vars, call, timeout, want, sent, peer, out, unread, transfers>>

(* read() returns zero: at the end of the stream, or because the buffer of *)
(* a request is full.  errno stays as it is.                               *)
ReadNothing ==
    /\ Reading /\ Connected
    /\ \/ taken = sent /\ peer = "closed"
       \/ at = want /\ (taken < sent \/ peer = "closed")
    /\ Throws(errno, "in")

ReadReset == /\ Reading /\ Connected /\ peer = "reset"
             /\ \E error \in {"ECONNRESET", errno} : Throws(error, "in")

(* A wait whose timeout is taken for readiness. *)
PatientReadTimeout ==
    /\ Reading /\ timeout > 0 /\ Connected /\ peer = "open" /\ taken = sent
    /\ UNCHANGED allvars

(* Without a timeout the wait goes on. *)
ReadTimeout ==
    /\ Reading /\ timeout > 0 /\ Connected /\ peer = "open" /\ taken = sent
    /\ Throws("ETIMEDOUT", "in")

(***************************************************************************)
(* Writing.  A descriptor that is still non-blocking takes what there is   *)
(* room for; on a blocking one write(2) stays until it has taken all, or   *)
(* is interrupted after a part.                                            *)
(***************************************************************************)
(* A write() from the start of the buffer, whatever has gone already. *)
FrozenHanded(n) == [k \in 1 .. n |-> k]

Handed(n) == [k \in 1 .. n |-> at + k]

WriteSome ==
    /\ Writing \/ io = "write"
    /\ Connected /\ peer # "reset"
    /\ \E n \in 1 .. want - at :
         /\ n <= Room - unread
         /\ out' = out \o Handed(n)
         /\ unread' = unread + n
         /\ at' = at + n
    /\ io' = IF at' = want THEN "returned" ELSE IF nonblocking THEN "wait" ELSE "write"
    /\ UNCHANGED <<vars, call, timeout, want, buf, sent, taken, peer, torn, transfers>>

WriteInterrupted ==
    /\ io = "write"
    /\ io' = "wait"
    /\ UNCHANGED <<vars, call, timeout, want, buf, at, stream>>

(* The first write after a reset may report it.  Another one raises        *)
(* SIGPIPE, which ends the process unless it is ignored (as                *)
(* MTService::start() does).                                               *)
WriteFails == /\ Writing \/ io = "write"
              /\ Connected /\ peer = "reset"
              /\ \/ \E error \in {"ECONNRESET", "EPIPE"} : Throws(error, "out")
                 \/ Fails("killed", errno, "out")

WriteTimeout ==
    /\ Writing /\ timeout > 0
    /\ Connected /\ peer # "reset" /\ unread = Room
    /\ Throws("ETIMEDOUT", "out")

(***************************************************************************)
(* The peer.                                                               *)
(***************************************************************************)
PeerSends == /\ net = "established" /\ peer = "open"
             /\ sent < MaxBytes
             /\ sent' = sent + 1
             /\ UNCHANGED <<vars, call, io, timeout, want, buf, at, taken, peer, out, unread, torn, transfers>>

PeerReads == /\ net = "established" /\ peer # "reset"
             /\ unread > 0
             /\ unread' = unread - 1
             /\ UNCHANGED <<vars, call, io, timeout, want, buf, at, sent, taken, peer, out, torn, transfers>>

(* It closes its end; a write of the client is then answered by a reset. *)
PeerLeaves == /\ net = "established" /\ peer # "reset"
              /\ \/ peer = "open" /\ peer' = "closed"
                 \/ peer' = "reset"
              /\ UNCHANGED <<vars, call, io, timeout, want, buf, at, sent, taken, out, unread, torn, transfers>>

IOStep == \/ NotConnected \/ ReadSome \/ ReadNothing \/ ReadReset \/ ReadTimeout
          \/ WriteSome \/ WriteFails \/ WriteTimeout

IONext == \/ Connecting
          \/ CallRead \/ CallRequest \/ CallWrite
          \/ IOStep \/ WriteInterrupted
          \/ PeerSends \/ PeerReads \/ PeerLeaves

InConnect  == pc \notin {"new", "returned", "thrown"}
InTransfer == io \in {"wait", "write"}

(* A wait with a timeout ends when the socket is ready or the timeout has  *)
(* passed; one without, when the socket is ready.  The kernel finishes     *)
(* every connection that is under way, or gives it up.                     *)
IOSpec == /\ IOInit /\ [][IONext]_allvars
          /\ WF_allvars(IOStep)
          /\ WF_allvars(InConnect /\ Connecting)
-----------------------------------------------------------------------------
(* safeRead() returns when count bytes have come, and not before           *)
(* (std_socket.h:151): its buffer then holds the next bytes of the stream, *)
(* in order, however they came; and if no call on this connection has      *)
(* ended inside a message, one message from its first byte to its last.    *)
ReadsWhole ==
    /\ io = "returned" /\ call # "safeWrite" =>
          \A k \in 1 .. at : buf[k] = taken - at + k
    /\ io = "returned" /\ call = "safeRead" => at = Count
    /\ ~InTransfer /\ "in" \notin torn => taken % Count = 0

(* safeWrite() returns when all bytes are written, and throws otherwise    *)
(* (std_socket.h:170): as long as no call has thrown inside a message, the *)
(* peer gets whole messages, each byte once and in order, and the part of  *)
(* the current one that is out.                                            *)
WritesWhole ==
    "out" \notin torn =>
        /\ \A k \in 1 .. Len(out) : (k - out[k]) % Count = 0
        /\ ~InTransfer => Len(out) % Count = 0

(* Every call ends, retries and interrupted writes included, also without  *)
(* a timeout for connect() (the default of Socket.h:92), whose attempts    *)
(* the kernel ends.  The exceptions wait for a peer that is silent or does *)
(* not read: calls with a timeout of 0 (MTService.cpp:109 sets it), and a  *)
(* write(2) on a blocking descriptor, which the timeout of select() or     *)
(* poll() (std_socket.cpp:22) does not bound.                              *)
HeldByPeer == /\ peer # "reset"
              /\ \/ Reading /\ timeout = 0 /\ taken = sent /\ peer = "open"
                 \/ Writing /\ timeout = 0 /\ unread = Room
                 \/ io = "write" /\ unread = Room
CallsReturn == (InConnect \/ InTransfer) ~> (~(InConnect \/ InTransfer) \/ HeldByPeer)
=============================================================================
