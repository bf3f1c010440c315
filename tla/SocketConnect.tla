---------------------------- MODULE SocketConnect ----------------------------
(***************************************************************************)
(* net/Socket.cpp: a TCP client that connects with a timeout and retries.  *)
(* connect() calls _connect() until it succeeds or fails for another       *)
(* reason than a timeout, retry times at most; _connect() starts a         *)
(* non-blocking connect and waits for it with select().  What follows in   *)
(* connect() goes by errno, which successful calls leave alone.            *)
(*                                                                         *)
(* The kernel's side of the connection is the variable net; a connection   *)
(* that is under way completes, is refused, or expires in the kernel at    *)
(* any moment.  bind() to a local port, and wrong addresses, are left out. *)
(***************************************************************************)
EXTENDS Naturals

CONSTANTS Retries,            \* the values of connect()'s argument retry
          Timeouts,           \* the values of its argument conntimeo; 0: no timeout
          StaleErrnos,        \* what earlier calls may have left in errno
          MaxCalls            \* bound on the calls of connect()

ASSUME SocketAssumption == Retries \subseteq Nat /\ Timeouts \subseteq Nat /\ MaxCalls \in Nat

VARIABLES mSocket,            \* "open" or "closed" (-1)
          mBeConnected,
          nonblocking,        \* O_NONBLOCK is set on the descriptor
          flags,              \* _connect's copy of that flag, to restore
          net,                \* the kernel's connection
          errno,
          retry,              \* attempts left
          conntimeo,          \* the timeout of an attempt
          pc,                 \* next step of connect(); "returned" or "thrown" at its end
          calls               \* how often connect() or initSocket() was called

vars == <<mSocket, mBeConnected, nonblocking, flags, net, errno, retry, conntimeo, pc, calls>>

(* A new Socket: initSocket() has opened a descriptor. *)
Init == /\ mSocket = "open"
        /\ mBeConnected = FALSE
        /\ nonblocking = FALSE /\ flags = FALSE
        /\ net = "none"
        /\ errno \in StaleErrnos
        /\ retry = 0 /\ conntimeo = 0
        /\ pc = "new"
        /\ calls = 0

(***************************************************************************)
(* What a client calls between two connects.                               *)
(***************************************************************************)
AtRest == pc \in {"new", "returned", "thrown"} /\ calls < MaxCalls

(* connect(), and reConnect(), which repeats it with the same arguments. *)
Connect ==
    /\ AtRest
    /\ calls' = calls + 1
    /\ retry' \in Retries /\ conntimeo' \in Timeouts
    /\ pc' = "loop"
    /\ UNCHANGED <<mSocket, mBeConnected, nonblocking, flags, net, errno>>

(* initSocket() closes the descriptor and opens a new one. *)
InitSocket ==
    /\ AtRest
    /\ calls' = calls + 1
    /\ mSocket' = "open" /\ mBeConnected' = FALSE
    /\ nonblocking' = FALSE
    /\ net' = "none"
    /\ pc' = "new"
    /\ UNCHANGED <<flags, errno, retry, conntimeo>>

(***************************************************************************)
(* The loop of connect().                                                  *)
(***************************************************************************)
(* while (retry--) *)
Loop ==
    /\ pc = "loop"
    /\ IF retry = 0 THEN pc' = "conclude" /\ UNCHANGED retry
       ELSE pc' = "attempt" /\ retry' = retry - 1
    /\ UNCHANGED <<mSocket, mBeConnected, nonblocking, flags, net, errno, conntimeo, calls>>

(* close(), and connect() throws. *)
CloseAndThrow == /\ pc' = "thrown"
                 /\ mSocket' = "closed" /\ mBeConnected' = FALSE
                 /\ net' = "none"

(* _connect() returns -1 and leaves the kernel's connection as n: only a   *)
(* timeout is tried again.                                                 *)
Failed(n) == \/ /\ errno' = "ETIMEDOUT"
                /\ pc' = "loop"
                /\ net' = n
                /\ UNCHANGED <<mSocket, mBeConnected>>
             \/ errno' # "ETIMEDOUT" /\ CloseAndThrow

(* The descriptor is -1: _connect() fails and leaves errno as it was. *)
AttemptClosed ==
    /\ pc = "attempt" /\ mSocket = "closed"
    /\ UNCHANGED errno
    /\ Failed(net)
    /\ UNCHANGED <<nonblocking, flags, retry, conntimeo, calls>>

(* F_GETFL and F_SETFL. *)
SetNonblocking == flags' = nonblocking /\ nonblocking' = TRUE

(* ::connect() succeeds at once, or the connection that an earlier attempt *)
(* began has been established since.                                       *)
AttemptLinks ==
    /\ pc = "attempt" /\ mSocket = "open"
    /\ net \in {"none", "established"}
    /\ net' = "established"
    /\ SetNonblocking
    /\ pc' = "restore"
    /\ UNCHANGED <<mSocket, mBeConnected, errno, retry, conntimeo, calls>>

AttemptBegins ==
    /\ pc = "attempt" /\ mSocket = "open"
    /\ net = "none"
    /\ net' = "underway"
    /\ errno' = "EINPROGRESS"
    /\ SetNonblocking
    /\ pc' = "select"
    /\ UNCHANGED <<mSocket, mBeConnected, retry, conntimeo, calls>>

(* What the kernel reports of a connection that is not there. *)
Reported(n) == CASE n = "underway"    -> "EALREADY"
                 [] n = "established" -> "EISCONN"
                 [] n = "expired"     -> "ETIMEDOUT"
                 [] OTHER             -> "ECONNREFUSED"

AttemptFails ==
    /\ pc = "attempt" /\ mSocket = "open"
    /\ errno' = Reported(net)
    /\ SetNonblocking
    /\ Failed("none")
    /\ UNCHANGED <<retry, conntimeo, calls>>

(* select() says within conntimeo that the socket is ready ... *)
SelectReady ==
    /\ pc = "select" /\ net = "established"
    /\ pc' = "restore"
    /\ UNCHANGED <<mSocket, mBeConnected, nonblocking, flags, net, errno, retry, conntimeo, calls>>

(* ... or in error, which getsockopt() takes from the kernel ... *)
SelectError ==
    /\ pc = "select" /\ net \in {"refused", "expired"}
    /\ errno' = Reported(net)
    /\ Failed("none")
    /\ UNCHANGED <<nonblocking, flags, retry, conntimeo, calls>>

(* ... or is interrupted ... *)
SelectInterrupted ==
    /\ pc = "select"
    /\ errno' = "EINTR"
    /\ Failed(net)
    /\ UNCHANGED <<nonblocking, flags, retry, conntimeo, calls>>

(* ... or runs out of time, if conntimeo is not 0 (it has no timeout then; *)
(* the kernel's is left).  The descriptor stays non-blocking.              *)
SelectTimeout ==
    /\ pc = "select" /\ net = "underway" /\ conntimeo > 0
    /\ errno' = "ETIMEDOUT"
    /\ Failed(net)
    /\ UNCHANGED <<nonblocking, flags, retry, conntimeo, calls>>

(* _done: _connect() restores the flags and returns 0. *)
Restore ==
    /\ pc = "restore"
    /\ nonblocking' = flags
    /\ pc' = "conclude"
    /\ UNCHANGED <<mSocket, mBeConnected, flags, net, errno, retry, conntimeo, calls>>

(* A connect() that does not ask why its loop ended. *)
TrustingConclude ==
    /\ pc = "conclude"
    /\ pc' = "returned" /\ mBeConnected' = TRUE
    /\ UNCHANGED <<mSocket, net, nonblocking, flags, errno, retry, conntimeo, calls>>

(* if (errno == ETIMEDOUT) close and throw; else connected. *)
Conclude ==
    /\ pc = "conclude"
    /\ \/ errno = "ETIMEDOUT" /\ CloseAndThrow
       \/ /\ errno # "ETIMEDOUT"
          /\ pc' = "returned" /\ mBeConnected' = TRUE
          /\ UNCHANGED <<mSocket, net>>
    /\ UNCHANGED <<nonblocking, flags, errno, retry, conntimeo, calls>>

(* The kernel finishes a connection that is under way: it gives up too. *)
Handshake ==
    /\ net = "underway"
    /\ net' \in {"established", "refused", "expired"}
    /\ UNCHANGED <<mSocket, mBeConnected, nonblocking, flags, errno, retry, pc, conntimeo, calls>>

Next == \/ Connect \/ InitSocket \/ Loop
        \/ AttemptClosed \/ AttemptLinks \/ AttemptBegins \/ AttemptFails
        \/ SelectReady \/ SelectError \/ SelectInterrupted \/ SelectTimeout
        \/ Restore \/ Conclude \/ Handshake

Spec == Init /\ [][Next]_vars
-----------------------------------------------------------------------------
TypeOK ==
    /\ mSocket \in {"open", "closed"}
    /\ {mBeConnected, nonblocking, flags} \subseteq BOOLEAN
    /\ net \in {"none", "underway", "established", "refused", "expired"}
    /\ errno \in StaleErrnos \cup {"EINPROGRESS", "ETIMEDOUT", "EALREADY",
                                   "EISCONN", "ECONNREFUSED", "EINTR", "ECONNRESET",
                                   "ENOTCONN", "EBADF", "EPIPE"}
    /\ retry \in Nat /\ conntimeo \in Nat /\ calls \in 0 .. MaxCalls
    /\ pc \in {"new", "loop", "attempt", "select", "restore", "conclude",
               "returned", "thrown"}

(* connect() returns only with a connection over an open descriptor: it    *)
(* throws when it fails to establish one (Socket.h:120), whatever earlier  *)
(* calls left in errno and however its attempts went.                      *)
ReturnsConnected ==
    pc = "returned" => net = "established" /\ mSocket = "open" /\ mBeConnected
=============================================================================
