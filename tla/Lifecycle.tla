------------------------------ MODULE Lifecycle ------------------------------
(***************************************************************************)
(* Starting and stopping daemon instances: main.c (configuration, lock     *)
(* file, signal handler, cleanup) with the socket path that ipc.c binds    *)
(* and removes.  Several instances share two names of the file system: the *)
(* lock file, whose fcntl lock belongs to the inode that was opened, and   *)
(* the socket, which belongs to the instance that bound it.  unlink works  *)
(* on the names.                                                           *)
(***************************************************************************)
EXTENDS Integers

CONSTANTS
  Procs,       \* the instances that are ever started
  Inodes,      \* bound: the inodes the lock path may be given
  None

ASSUME ConstantsAssumption == None \notin Procs \cup Inodes

VARIABLES
  pc,          \* each instance's place in main
  lockFd,      \* g_lock_fd: the inode it is open on
  serving,     \* whether the instance has its listening socket (g_socket >= 0)
  lockPath,    \* the inode the lock file's name refers to
  lock,        \* per inode: the instance that holds its fcntl lock
  sockPath,    \* the instance whose socket the socket path refers to
  used,        \* inodes the lock path has been given so far
  signalled,   \* history: some instance was sent SIGINT, SIGTERM or SIGQUIT
  unclean      \* history: some instance was killed or crashed

names == <<lockPath, sockPath, used>>
history == <<signalled, unclean>>
vars == <<pc, lockFd, serving, lock, names, history>>

Places == {"off", "config", "open", "lock", "unlink", "bind", "running",
           "sockEnd", "close", "unlinkLock", "exited", "killed"}

Live(p) == pc[p] \notin {"off", "exited", "killed"}

Init ==
  /\ pc = [p \in Procs |-> "off"]
  /\ lockFd = [p \in Procs |-> None]
  /\ serving = [p \in Procs |-> FALSE]
  /\ lockPath = None /\ sockPath = None
  /\ lock = [i \in Inodes |-> None]
  /\ used = {}
  /\ signalled = FALSE /\ unclean = FALSE

GoTo(p, place) == pc' = [pc EXCEPT ![p] = place]

-----------------------------------------------------------------------------
(* main, up to the run loop *)

\* daemonize and omabar_init: from here on signals are handled.
Start(p) ==
  /\ pc[p] = "off"
  /\ GoTo(p, "config")
  /\ UNCHANGED <<lockFd, serving, lock, names, history>>

\* A configuration that does not load: omabar_cleanup and return 1.
LoadConfig(p) ==
  /\ pc[p] = "config"
  /\ GoTo(p, "open") \/ GoTo(p, "sockEnd")
  /\ UNCHANGED <<lockFd, serving, lock, names, history>>

\* open(g_lock_file, O_CREAT | O_RDWR)
OpenLock(p) ==
  /\ pc[p] = "open"
  /\ IF lockPath # None
       THEN /\ lockFd' = [lockFd EXCEPT ![p] = lockPath]
            /\ UNCHANGED <<lockPath, used>>
       ELSE \E i \in Inodes \ used :
              /\ used' = used \cup {i}
              /\ lockPath' = i
              /\ lockFd' = [lockFd EXCEPT ![p] = i]
  /\ GoTo(p, "lock")
  /\ UNCHANGED <<serving, lock, sockPath, history>>

\* Mutant: the result of fcntl is not looked at.
SetLockUnchecked(p) ==
  /\ pc[p] = "lock"
  /\ lock' = [lock EXCEPT ![lockFd[p]] = p]
  /\ GoTo(p, "unlink")
  /\ UNCHANGED <<lockFd, serving, names, history>>

\* fcntl(F_SETLK)
SetLock(p) ==
  /\ pc[p] = "lock" /\ lock[lockFd[p]] = None
  /\ lock' = [lock EXCEPT ![lockFd[p]] = p]
  /\ GoTo(p, "unlink")
  /\ UNCHANGED <<lockFd, serving, names, history>>

\* Mutants: g_lock_fd keeps the closed descriptor; main returns with no cleanup.
RefusedKeepsFd(p) ==
  /\ pc[p] = "lock" /\ lock[lockFd[p]] # None
  /\ GoTo(p, "sockEnd")
  /\ UNCHANGED <<lockFd, serving, lock, names, history>>

RefusedReturns(p) ==
  /\ pc[p] = "lock" /\ lock[lockFd[p]] # None
  /\ lockFd' = [lockFd EXCEPT ![p] = None]
  /\ GoTo(p, "returned")
  /\ UNCHANGED <<serving, lock, names, history>>

\* "another instance running?": close, omabar_cleanup, return 1.
Refused(p) ==
  /\ pc[p] = "lock" /\ lock[lockFd[p]] # None
  /\ lockFd' = [lockFd EXCEPT ![p] = None]
  /\ GoTo(p, "sockEnd")
  /\ UNCHANGED <<serving, lock, names, history>>

-----------------------------------------------------------------------------
(* socket_daemon_begin_un *)

UnlinkStale(p) ==
  /\ pc[p] = "unlink"
  /\ sockPath' = None
  /\ GoTo(p, "bind")
  /\ UNCHANGED <<lockFd, serving, lockPath, lock, used, history>>

\* bind fails when the path exists; the daemon then runs without a socket.
Bind(p) ==
  /\ pc[p] = "bind"
  /\ IF sockPath = None
       THEN sockPath' = p /\ serving' = [serving EXCEPT ![p] = TRUE]
       ELSE UNCHANGED <<sockPath, serving>>
  /\ GoTo(p, "running")
  /\ UNCHANGED <<lockFd, lockPath, lock, used, history>>

-----------------------------------------------------------------------------
(* Ending: a handled signal runs omabar_cleanup wherever main is *)

Signal(p) ==
  /\ pc[p] \in {"config", "open", "lock", "unlink", "bind", "running"}
  /\ signalled' = TRUE
  /\ GoTo(p, "sockEnd")
  /\ UNCHANGED <<lockFd, serving, lock, names, unclean>>

\* socket_daemon_end
SocketEnd(p) ==
  /\ pc[p] = "sockEnd"
  /\ serving' = [serving EXCEPT ![p] = FALSE]
  /\ sockPath' = None
  /\ GoTo(p, IF lockFd[p] # None THEN "close" ELSE "exited")
  /\ UNCHANGED <<lockFd, lockPath, lock, used, history>>

Freed(p) == [i \in Inodes |-> IF lock[i] = p THEN None ELSE lock[i]]

\* close(g_lock_fd): the lock goes with it.
CloseLock(p) ==
  /\ pc[p] = "close"
  /\ lock' = Freed(p)
  /\ lockFd' = [lockFd EXCEPT ![p] = None]
  /\ GoTo(p, "unlinkLock")
  /\ UNCHANGED <<serving, names, history>>

\* Mutant: the lock file is closed and left.
LeaveLock(p) ==
  /\ pc[p] = "unlinkLock"
  /\ GoTo(p, "exited")
  /\ UNCHANGED <<lockFd, serving, lock, names, history>>

UnlinkLock(p) ==
  /\ pc[p] = "unlinkLock"
  /\ lockPath' = None
  /\ GoTo(p, "exited")
  /\ UNCHANGED <<lockFd, serving, lock, sockPath, used, history>>

\* SIGKILL or a crash: the kernel closes the descriptors, the names stay.
Kill(p) ==
  /\ Live(p)
  /\ lock' = Freed(p)
  /\ lockFd' = [lockFd EXCEPT ![p] = None]
  /\ serving' = [serving EXCEPT ![p] = FALSE]
  /\ unclean' = TRUE
  /\ GoTo(p, "killed")
  /\ UNCHANGED <<names, signalled>>

-----------------------------------------------------------------------------
Startup(p) ==
  \/ LoadConfig(p) \/ OpenLock(p) \/ SetLock(p) \/ Refused(p)
  \/ UnlinkStale(p) \/ Bind(p)

Cleanup(p) == SocketEnd(p) \/ CloseLock(p) \/ UnlinkLock(p)

Next ==
  \E p \in Procs :
    Start(p) \/ Startup(p) \/ Signal(p) \/ Cleanup(p) \/ Kill(p)

Spec == Init /\ [][Next]_vars

-----------------------------------------------------------------------------
(* Properties *)

TypeOK ==
  /\ pc \in [Procs -> Places]
  /\ lockFd \in [Procs -> Inodes \cup {None}]
  /\ serving \in [Procs -> BOOLEAN]
  /\ lockPath \in Inodes \cup {None}
  /\ lock \in [Inodes -> Procs \cup {None}]
  /\ sockPath \in Procs \cup {None}
  /\ used \in SUBSET Inodes
  /\ signalled \in BOOLEAN /\ unclean \in BOOLEAN

\* Past the lock file and before the release of it an instance acts as the
\* daemon.
InCharge(p) == pc[p] \in {"unlink", "bind", "running"}

\* "acquire lock file so only one daemon can run" (main.c:181).
OneDaemon == \A p, q \in Procs : InCharge(p) /\ InCharge(q) => p = q

\* It does as long as instances end by themselves, crash or are killed: kills leave
\* a stale file, never an unlinked one.
OneDaemonUnlessSignalled == ~signalled => OneDaemon

\* README.md:94-95: the lock file is "unlinked on clean exit" and the socket removed
\* "on exit": once every instance has ended, none of them killed, neither name is
\* left.
NothingLeft ==
  (\A p \in Procs : ~Live(p)) /\ ~unclean => lockPath = None /\ sockPath = None

-----------------------------------------------------------------------------
(* The inductive invariant behind OneDaemonUnlessSignalled *)

\* Until a signal is handled nothing unlinks the lock file: there is one inode,
\* every descriptor is open on it and the instance in charge holds its lock.
LockInv ==
  /\ \A p \in Procs : lockFd[p] \in {None, lockPath}
  /\ \A p \in Procs : pc[p] \in {"lock", "unlink", "bind", "running"} => lockFd[p] # None
  /\ \A p \in Procs : InCharge(p) => lock[lockFd[p]] = p
  /\ \A p \in Procs : pc[p] \in {"off", "config", "open", "sockEnd"} => lockFd[p] = None
  /\ \A p \in Procs : pc[p] \notin {"close", "unlinkLock"}

NoSignalInv == TypeOK /\ (~signalled => LockInv)

=============================================================================
