\* Two owners, an editor and an admin: members and links, settings, import, sources, the public version with its triage, a batch.
SPECIFICATION Spec
CONSTANTS
  ann = ann ben = ben cam = cam root = root n = n s1 = s1
  People = {ann, ben, cam, root}
  Admins = {root}
  Newcomers = {n}
  FirstRoles <- OwnersAndEditor
  InviteRole = 4
  MaxUses = 1
  Kinds = {"memory", "link"}
  Parts = {s1}
  Sessions <- OneMatter
  MaxCalls = 1
  MaxActs <- Acts
INVARIANTS  CleanIsPublic
PROPERTIES InviteHolds
\* Everything is bounded: a session may come to its end.
CHECK_DEADLOCK FALSE
