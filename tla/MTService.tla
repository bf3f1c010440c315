------------------------------ MODULE MTService ------------------------------
(***************************************************************************)
(* net/MTService.cpp: the service that starts one thread per connection.   *)
(* The boss is the thread inside start(); the child of a connection runs   *)
(* mThreadFunc.  The descriptor goes from boss to child through the member *)
(* mAcceptSocketfd, and the dealer and its argument through a ThrArg on    *)
(* the stack of start().  The boss waits, with mLock, mCond and            *)
(* mShareCount, until the child has picked the descriptor up.              *)
(*                                                                         *)
(* Connections are numbered in the order of acceptance and child c serves  *)
(* connection c.  The kernel reuses descriptors once they are closed.      *)
(***************************************************************************)
EXTENDS Naturals, FiniteSets

CONSTANTS MaxConns,           \* bound on the connections accepted
          Fds,                \* the descriptors the process may have
          NoFd, NoThread,
          AcceptMayFail       \* whether accept() and pthread_create() may fail

Children == 1 .. MaxConns
Boss == 0
Threads == {Boss} \cup Children

ASSUME NoThreadAssumption == NoThread \notin Threads
ASSUME MTAssumption == MaxConns \in Nat /\ AcceptMayFail \in BOOLEAN /\ NoFd \notin Fds

VARIABLES mAcceptSocketfd, mShareCount,
          mLock, mCond,       \* the holder of the mutex; the threads waiting
          boss,               \* next step of the boss; "thrown" once it has left start()
          child,              \* child[c]: next step of child c
          fd,                 \* fd[c]: the descriptor child c has picked up
          accepted,           \* the number of connections accepted
          open                \* open[f]: the connection descriptor f stands for; 0: closed

Lock == INSTANCE ThreadCondLock WITH owner <- mLock, waiters <- mCond

vars == <<mAcceptSocketfd, mShareCount, mLock, mCond, boss, child, fd, accepted, open>>

Init == /\ Lock!Init
        /\ mAcceptSocketfd = NoFd
        /\ mShareCount = 0
        /\ boss = "accept"
        /\ child = [c \in Children |-> "none"]
        /\ fd = [c \in Children |-> NoFd]
        /\ accepted = 0
        /\ open = [f \in Fds |-> 0]

(***************************************************************************)
(* The boss: start().                                                      *)
(***************************************************************************)
Accept == \E f \in Fds :
    /\ boss = "accept" /\ accepted < MaxConns
    /\ open[f] = 0
    /\ accepted' = accepted + 1
    /\ open' = [open EXCEPT ![f] = accepted + 1]
    /\ mAcceptSocketfd' = f
    /\ mShareCount' = 0
    /\ boss' = "create"
    /\ UNCHANGED <<mLock, mCond, child, fd>>

(* A boss that does not wait for the child to fetch the descriptor. *)
HastyCreateThread ==
    /\ boss = "create"
    /\ child' = [child EXCEPT ![accepted] = "fetch"]
    /\ boss' = "accept"
    /\ UNCHANGED <<mAcceptSocketfd, mShareCount, mLock, mCond, fd, accepted, open>>

CreateThread ==
    /\ boss = "create"
    /\ child' = [child EXCEPT ![accepted] = "fetch"]
    /\ boss' = "lock"
    /\ UNCHANGED <<mAcceptSocketfd, mShareCount, mLock, mCond, fd, accepted, open>>

(* An exception of accept(), e.g. with every descriptor in use, or of      *)
(* pthread_create() leaves the loop and start() throws.                    *)
Throw ==
    /\ boss \in {"accept", "create"}
    /\ AcceptMayFail
    /\ boss' = "thrown"
    /\ UNCHANGED <<mAcceptSocketfd, mShareCount, mLock, mCond, child, fd, accepted, open>>

BossLock ==
    /\ boss = "lock" /\ Lock!lock(Boss)
    /\ boss' = "test"
    /\ UNCHANGED <<mAcceptSocketfd, mShareCount, child, fd, accepted, open>>

BossWait ==
    /\ boss = "test" /\ mShareCount = 0
    /\ Lock!wait(Boss)
    /\ boss' = "wait"
    /\ UNCHANGED <<mAcceptSocketfd, mShareCount, child, fd, accepted, open>>

BossSpuriousWakeup ==
    /\ boss = "wait" /\ Lock!wake(Boss)
    /\ UNCHANGED <<mAcceptSocketfd, mShareCount, boss, child, fd, accepted, open>>

BossRelock ==
    /\ boss = "wait" /\ Lock!relock(Boss)
    /\ boss' = "test"
    /\ UNCHANGED <<mAcceptSocketfd, mShareCount, child, fd, accepted, open>>

(* if instead of while around the wait: the count is not tested again. *)
UntestedBossUnlock ==
    /\ boss = "test"
    /\ mShareCount' = mShareCount - 1
    /\ Lock!unlock(Boss)
    /\ boss' = "accept"
    /\ UNCHANGED <<mAcceptSocketfd, child, fd, accepted, open>>

BossUnlock ==
    /\ boss = "test" /\ mShareCount # 0
    /\ mShareCount' = mShareCount - 1
    /\ Lock!unlock(Boss)
    /\ boss' = "accept"
    /\ UNCHANGED <<mAcceptSocketfd, child, fd, accepted, open>>

(***************************************************************************)
(* A child: mThreadFunc().                                                 *)
(***************************************************************************)
Goto(c, from, to) == child[c] = from /\ child' = [child EXCEPT ![c] = to]

Fetch(c) ==
    /\ Goto(c, "fetch", "lock")
    /\ fd' = [fd EXCEPT ![c] = mAcceptSocketfd]
    /\ UNCHANGED <<mAcceptSocketfd, mShareCount, mLock, mCond, boss, accepted, open>>

ChildLock(c) ==
    /\ Goto(c, "lock", "signal") /\ Lock!lock(c)
    /\ UNCHANGED <<mAcceptSocketfd, mShareCount, boss, fd, accepted, open>>

(* A child that signals only from the second count on. *)
LateChildSignal(c) ==
    /\ Goto(c, "signal", "unlock")
    /\ IF mShareCount # 0 THEN Lock!signal ELSE UNCHANGED <<mLock, mCond>>
    /\ mShareCount' = mShareCount + 1
    /\ UNCHANGED <<mAcceptSocketfd, boss, fd, accepted, open>>

ChildSignal(c) ==
    /\ Goto(c, "signal", "unlock")
    /\ IF mShareCount = 0 THEN Lock!signal ELSE UNCHANGED <<mLock, mCond>>
    /\ mShareCount' = mShareCount + 1
    /\ UNCHANGED <<mAcceptSocketfd, boss, fd, accepted, open>>

ChildUnlock(c) ==
    /\ Goto(c, "unlock", "socket") /\ Lock!unlock(c)
    /\ UNCHANGED <<mAcceptSocketfd, mShareCount, boss, fd, accepted, open>>

(* AcceptSocket asks for the addresses of both ends.  If the peer has gone *)
(* it closes the descriptor and throws; nothing in mThreadFunc catches the *)
(* exception and the process ends.                                         *)
MakeSocket(c) ==
    /\ Goto(c, "socket", "call")
    /\ UNCHANGED <<mAcceptSocketfd, mShareCount, mLock, mCond, boss, fd, accepted, open>>

PeerGone(c) ==
    /\ Goto(c, "socket", "aborted")
    /\ open' = [open EXCEPT ![fd[c]] = 0]
    /\ UNCHANGED <<mAcceptSocketfd, mShareCount, mLock, mCond, boss, fd, accepted>>

Alive == \A c \in Children : child[c] # "aborted"

(* _arg->worker(&mSocket, _arg->obj): the ThrArg is still the boss's only  *)
(* while the boss is in start(); otherwise the call is undefined.          *)
Call(c) ==
    /\ Goto(c, "call", IF boss = "thrown" THEN "lost" ELSE "serving")
    /\ UNCHANGED <<mAcceptSocketfd, mShareCount, mLock, mCond, boss, fd, accepted, open>>

(* The dealer returns and ~AcceptSocket closes the descriptor. *)
Close(c) ==
    /\ Goto(c, "serving", "done")
    /\ open' = [open EXCEPT ![fd[c]] = 0]
    /\ UNCHANGED <<mAcceptSocketfd, mShareCount, mLock, mCond, boss, fd, accepted>>

BossStep == /\ Alive
            /\ CreateThread \/ BossLock \/ BossWait \/ BossRelock \/ BossUnlock

ChildStep(c) == /\ Alive
                /\ \/ Fetch(c) \/ ChildLock(c) \/ ChildSignal(c) \/ ChildUnlock(c)
                   \/ MakeSocket(c) \/ PeerGone(c) \/ Call(c) \/ Close(c)

Next == \/ Alive /\ (Accept \/ Throw \/ BossSpuriousWakeup)
        \/ BossStep
        \/ \E c \in Children : ChildStep(c)

Spec == Init /\ [][Next]_vars

(* A thread that can run is eventually scheduled and a thread blocked on   *)
(* the mutex is not overtaken for ever; nothing has to connect.            *)
FairSpec == /\ Spec
            /\ WF_vars(BossStep) /\ SF_vars(Alive /\ BossRelock)
            /\ \A c \in Children :
                  WF_vars(ChildStep(c)) /\ SF_vars(Alive /\ ChildLock(c))
-----------------------------------------------------------------------------
TypeOK ==
    /\ Lock!TypeOK
    /\ mAcceptSocketfd \in Fds \cup {NoFd}
    /\ mShareCount \in 0 .. 1
    /\ boss \in {"accept", "create", "lock", "test", "wait", "thrown"}
    /\ child \in [Children -> {"none", "fetch", "lock", "signal", "unlock",
                               "socket", "call", "serving", "lost", "done", "aborted"}]
    /\ fd \in [Children -> Fds \cup {NoFd}]
    /\ accepted \in 0 .. MaxConns
    /\ open \in [Fds -> 0 .. MaxConns]

(* Each child serves the connection it was started for: the boss accepts   *)
(* no other before the child has the descriptor (MTService.cpp:58), and    *)
(* nobody closes it under the child.                                       *)
ServesOwnConnection ==
    \A c \in Children :
        child[c] \in {"lock", "signal", "unlock", "socket", "call", "serving"} =>
            fd[c] # NoFd /\ open[fd[c]] = c

(* mShareCount and the handshake agree: a count of one is a child that has *)
(* its descriptor and whose boss has not moved on yet.                     *)
OneHandoffAtATime ==
    /\ Cardinality({c \in Children : child[c] \in {"fetch", "lock", "signal"}}) <= 1
    /\ boss = "accept" => /\ mShareCount = 0
                          /\ \A c \in Children :
                                child[c] \notin {"fetch", "lock", "signal"}

(* The boss always comes back to accept() after it has started a child,    *)
(* unless a child brings the process down.                                 *)
HandoffCompletes == boss = "lock" ~> boss = "accept" \/ ~Alive

=============================================================================
