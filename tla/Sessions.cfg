\* Kicks, reused descriptors, one of them above the limit of the loop, and away
\* timers; safety.
SPECIFICATION Spec
CONSTANTS
  p1 = p1  p2 = p2  p3 = p3  a1 = a1  a2 = a2  a3 = a3
  Peers <- Three
  Addr <- Slots3
  Fd <- Fds3
  Watchable <- Fds2
  IdSpace = 3
  MaxLogins = 3
  Admins <- One
  Protected <- None
  NoPeer = NoPeer  NoFd = NoFd  NoAddr = NoAddr  Freed = Freed
SYMMETRY Symmetry
INVARIANTS ManagerSound EventsLive WatchedOwned ViewsAgree
PROPERTIES ImplementsUsers
