CONSTANTS
  Ops = {o1, o2}
  Boot = boot
  None = None
  Models = {m1, m2}
  Skills = {s1, s2}
  MaxOutside = 1
SPECIFICATION Spec
SYMMETRY Symmetry
INVARIANTS NothingLost CredentialsAgree CopyIsTrue EnabledIsTrusted
CHECK_DEADLOCK FALSE
