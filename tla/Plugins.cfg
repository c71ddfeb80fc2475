SPECIFICATION PluginsSpec
CONSTANTS
  Words = {n1, n2, w}
  Names = {n1, n2}
  Files = {f1, f2}
  Loads = {l1, l2}
  None = None
  Messages = {m1, m2}
  Users = {owner, other}
  Owners = {owner}
  Name = name
  Aliases = {alias}
  MaxCustom = 2
  NoCommand = NoCommand
INVARIANTS LoadReplaces AliasesDeclared AtMostOneRun RestrictedRunsForOwners OncePerCooldown
PROPERTIES ReloadIsLocal
SYMMETRY PluginsSymmetry
