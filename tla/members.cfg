SPECIFICATION MembersSpec
CONSTANTS
  m1 = m1
  m2 = m2
  m3 = m3
  u1 = u1
  u2 = u2
  Rows <- MCRows
  Users <- MCUsers
  UserOf <- MCUserOf
  Calls = {r1, r2}
INVARIANTS
  HasOwner
\* After a race that took the last owner, nobody may be left who may ask for anything.
CHECK_DEADLOCK FALSE
