\* What a comment says of a disconnect: violated.  Once the last login of the
\* bound has gone the system stops.
SPECIFICATION Spec
CONSTANTS
  a1 = a1  a2 = a2  a3 = a3  c1 = c1
  Addr <- Slots3
  IdSpace = 5
  MaxLogins = 3
  NoId = NoId
  ChatId <- Chats1
  NoChat = NoChat
  MaxRooms = 1
  MaxMembers = 2
  Subjects = {"", "topic"}
  NoSubject = ""
SYMMETRY Symmetry
INVARIANTS MembersLive
CHECK_DEADLOCK FALSE
