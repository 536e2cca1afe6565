--------------------------- MODULE LifecycleProofs ---------------------------
(***************************************************************************)
(* Until an instance handles a signal the lock file keeps the instances    *)
(* apart, for any number of instances and inodes, whichever of them crash  *)
(* or are killed: the invariant is NoSignalInv.  Once signals are handled  *)
(* OneDaemon is false.                                                     *)
(***************************************************************************)
EXTENDS Lifecycle, TLAPS

\* Type correctness of the initial states and of every step (main.c, ipc.c).
THEOREM TypeCorrect == Spec => []TypeOK
<1>1. Init => TypeOK
  BY DEF Init, TypeOK, Places
<1>2. TypeOK /\ [Next]_vars => TypeOK'
  <2> SUFFICES ASSUME TypeOK, [Next]_vars
               PROVE  TypeOK'
    OBVIOUS
  <2> USE DEF TypeOK, GoTo, Places
  <2>1. CASE UNCHANGED vars
    BY <2>1 DEF vars, names, history
  <2>2. ASSUME NEW p \in Procs, Start(p)
        PROVE  TypeOK'
    BY <2>2 DEF Start, names, history
  <2>3. ASSUME NEW p \in Procs, LoadConfig(p)
        PROVE  TypeOK'
    BY <2>3 DEF LoadConfig, names, history
  <2>4. ASSUME NEW p \in Procs, OpenLock(p)
        PROVE  TypeOK'
    BY <2>4 DEF OpenLock, history
  <2>5. ASSUME NEW p \in Procs, SetLock(p)
        PROVE  TypeOK'
    BY <2>5 DEF SetLock, names, history
  <2>6. ASSUME NEW p \in Procs, Refused(p)
        PROVE  TypeOK'
    BY <2>6 DEF Refused, names, history
  <2>7. ASSUME NEW p \in Procs, UnlinkStale(p)
        PROVE  TypeOK'
    BY <2>7 DEF UnlinkStale, history
  <2>8. ASSUME NEW p \in Procs, Bind(p)
        PROVE  TypeOK'
    BY <2>8 DEF Bind, history
  <2>9. ASSUME NEW p \in Procs, Signal(p)
        PROVE  TypeOK'
    BY <2>9 DEF Signal, names, history
  <2>10. ASSUME NEW p \in Procs, SocketEnd(p)
         PROVE  TypeOK'
    BY <2>10 DEF SocketEnd, history
  <2>11. ASSUME NEW p \in Procs, CloseLock(p)
         PROVE  TypeOK'
    BY <2>11 DEF CloseLock, Freed, names, history
  <2>12. ASSUME NEW p \in Procs, UnlinkLock(p)
         PROVE  TypeOK'
    BY <2>12 DEF UnlinkLock, history
  <2>13. ASSUME NEW p \in Procs, Kill(p)
         PROVE  TypeOK'
    BY <2>13 DEF Kill, Freed, names, history
  <2>14. QED
    BY <2>1, <2>2, <2>3, <2>4, <2>5, <2>6, <2>7, <2>8, <2>9, <2>10, <2>11, <2>12, <2>13
       DEF Next, Startup, Cleanup
<1>3. QED
  BY <1>1, <1>2, PTL DEF Spec

-----------------------------------------------------------------------------
LEMMA LockInvInit == Init => LockInv
BY ConstantsAssumption DEF Init, LockInv, InCharge

\* Each step of main preserves the lock invariant as long as no signal arrives.
LEMMA LockInvStep ==
  ASSUME TypeOK, LockInv, [Next]_vars, ~signalled'
  PROVE  LockInv'
<1> USE ConstantsAssumption DEF TypeOK, LockInv, InCharge, GoTo, Places
<1>1. CASE UNCHANGED vars
  BY <1>1 DEF vars, names, history
<1>2. ASSUME NEW p \in Procs, Start(p)
      PROVE  LockInv'
  BY <1>2 DEF Start, names, history
<1>3. ASSUME NEW p \in Procs, LoadConfig(p)
      PROVE  LockInv'
  BY <1>3 DEF LoadConfig, names, history
<1>4. ASSUME NEW p \in Procs, OpenLock(p)
      PROVE  LockInv'
  BY <1>4 DEF OpenLock, history
<1>5. ASSUME NEW p \in Procs, SetLock(p)
      PROVE  LockInv'
  BY <1>5 DEF SetLock, names, history
<1>6. ASSUME NEW p \in Procs, Refused(p)
      PROVE  LockInv'
  BY <1>6 DEF Refused, names, history
<1>7. ASSUME NEW p \in Procs, UnlinkStale(p)
      PROVE  LockInv'
  BY <1>7 DEF UnlinkStale, history
<1>8. ASSUME NEW p \in Procs, Bind(p)
      PROVE  LockInv'
  BY <1>8 DEF Bind, history
<1>9. ASSUME NEW p \in Procs, SocketEnd(p)
      PROVE  LockInv'
  BY <1>9 DEF SocketEnd, history
<1>10. ASSUME NEW p \in Procs, Kill(p)
       PROVE  LockInv'
  BY <1>10 DEF Kill, Freed, names, history
<1>11. ASSUME NEW p \in Procs
       PROVE  ~Signal(p) /\ ~CloseLock(p) /\ ~UnlinkLock(p)
  BY DEF Signal, CloseLock, UnlinkLock
<1>12. QED
  BY <1>1, <1>2, <1>3, <1>4, <1>5, <1>6, <1>7, <1>8, <1>9, <1>10, <1>11
     DEF Next, Startup, Cleanup

\* An inode's lock has one holder and every descriptor is open on one inode.
LEMMA LockInvExcludes == TypeOK /\ LockInv => OneDaemon
BY ConstantsAssumption DEF TypeOK, LockInv, OneDaemon, InCharge

LEMMA NoSignalStep ==
  ASSUME NoSignalInv, TypeOK', [Next]_vars
  PROVE  NoSignalInv'
<1>1. signalled => signalled'
  BY DEF NoSignalInv, TypeOK, Next, vars, history, Start, Startup, LoadConfig, OpenLock,
         SetLock, Refused, UnlinkStale, Bind, Signal, Cleanup, SocketEnd,
         CloseLock, UnlinkLock, Kill
<1>2. QED
  BY <1>1, LockInvStep DEF NoSignalInv

\* Until a signal is handled the lock file is one inode, and its lock is with the
\* instance in charge (main.c: acquire_lockfile).
THEOREM LockKept == Spec => []NoSignalInv
<1>1. Init => NoSignalInv
  BY LockInvInit DEF Init, NoSignalInv, TypeOK, Places
<1>2. QED
  BY TypeCorrect, <1>1, NoSignalStep, PTL DEF Spec

\* "acquire lock file so only one daemon can run" (main.c:181), for as long as no
\* instance has handled a signal.
THEOREM OneDaemonTheorem == Spec => []OneDaemonUnlessSignalled
<1>1. NoSignalInv => OneDaemonUnlessSignalled
  BY LockInvExcludes DEF NoSignalInv, OneDaemonUnlessSignalled
<1>2. QED
  BY LockKept, <1>1, PTL

-----------------------------------------------------------------------------
(* What is left behind *)

\* An instance that has the lock file open, or has just closed it, will unlink it:
\* unless it is refused, and then the one that holds the lock will.
Holding == {"unlink", "bind", "running", "sockEnd", "close"}
WillUnlink(p) ==
  \/ pc[p] = "unlinkLock"
  \/ lockFd[p] # None /\ pc[p] \in Holding \cup {"lock"}

LeftInv ==
  /\ \A p \in Procs : pc[p] \in {"lock", "close"} => lockFd[p] # None
  /\ \A i \in Inodes : lock[i] # None => lockFd[lock[i]] = i /\ pc[lock[i]] \in Holding
  /\ ~unclean /\ lockPath # None => \E p \in Procs : WillUnlink(p)
  /\ ~unclean /\ sockPath # None => pc[sockPath] \in {"running", "sockEnd"}

LEMMA LeftInvStep ==
  ASSUME TypeOK, LeftInv, [Next]_vars
  PROVE  LeftInv'
<1> USE ConstantsAssumption DEF TypeOK, GoTo, Places, Holding
<1>1. CASE UNCHANGED vars
  BY <1>1 DEF vars, names, history, LeftInv, WillUnlink
<1>2. ASSUME NEW p \in Procs, Start(p)
      PROVE  LeftInv'
  BY <1>2 DEF Start, names, history, LeftInv, WillUnlink
<1>3. ASSUME NEW p \in Procs, LoadConfig(p)
      PROVE  LeftInv'
  BY <1>3 DEF LoadConfig, names, history, LeftInv, WillUnlink
<1>4. ASSUME NEW p \in Procs, OpenLock(p)
      PROVE  LeftInv'
  BY <1>4 DEF OpenLock, history, LeftInv, WillUnlink
<1>5. ASSUME NEW p \in Procs, SetLock(p)
      PROVE  LeftInv'
  BY <1>5 DEF SetLock, names, history, LeftInv, WillUnlink
<1>6. ASSUME NEW p \in Procs, Refused(p)
      PROVE  LeftInv'
  <2>1. PICK q \in Procs : q # p /\ lockFd[q] # None /\ pc[q] \in Holding
    BY <1>6 DEF Refused, LeftInv
  <2>2. pc'[q] = pc[q] /\ lockFd'[q] = lockFd[q]
    BY <1>6, <2>1 DEF Refused
  <2>3. WillUnlink(q)'
    BY <2>1, <2>2 DEF WillUnlink
  <2>4. QED
    BY <1>6, <2>3 DEF Refused, names, history, LeftInv
<1>7. ASSUME NEW p \in Procs, UnlinkStale(p)
      PROVE  LeftInv'
  BY <1>7 DEF UnlinkStale, history, LeftInv, WillUnlink
<1>8. ASSUME NEW p \in Procs, Bind(p)
      PROVE  LeftInv'
  BY <1>8 DEF Bind, history, LeftInv, WillUnlink
<1>9. ASSUME NEW p \in Procs, Signal(p)
      PROVE  LeftInv'
  BY <1>9 DEF Signal, names, LeftInv, WillUnlink
<1>10. ASSUME NEW p \in Procs, SocketEnd(p)
       PROVE  LeftInv'
  BY <1>10 DEF SocketEnd, history, LeftInv, WillUnlink
<1>11. ASSUME NEW p \in Procs, CloseLock(p)
       PROVE  LeftInv'
  BY <1>11 DEF CloseLock, Freed, names, history, LeftInv, WillUnlink
<1>12. ASSUME NEW p \in Procs, UnlinkLock(p)
       PROVE  LeftInv'
  BY <1>12 DEF UnlinkLock, history, LeftInv, WillUnlink
<1>13. ASSUME NEW p \in Procs, Kill(p)
       PROVE  LeftInv'
  BY <1>13 DEF Kill, Freed, names, LeftInv, WillUnlink
<1>14. QED
  BY <1>1, <1>2, <1>3, <1>4, <1>5, <1>6, <1>7, <1>8, <1>9, <1>10, <1>11, <1>12, <1>13
     DEF Next, Startup, Cleanup

\* README.md:94-95: after clean exits neither the lock file nor the socket is left
\* (main.c: omabar_cleanup, release_lockfile; ipc.c: socket_daemon_end).
THEOREM CleanExit == Spec => []NothingLeft
<1>1. Init => LeftInv
  BY DEF Init, LeftInv
<1>2. TypeOK /\ LeftInv => NothingLeft
  BY ConstantsAssumption DEF LeftInv, NothingLeft, TypeOK, Live, WillUnlink, Holding
<1>3. QED
  BY TypeCorrect, <1>1, <1>2, LeftInvStep, PTL DEF Spec
=============================================================================
