SPECIFICATION Spec
SYMMETRY Symmetry
CONSTANTS
  Provider = {p1, x1}
  Supported = {p1}
  Admin = {a1, a2}
  Content = {c1}
  Kind = {token, count}
  MaxVersion = 3
INVARIANTS
  TypeOK
  RowIsNewestVersion
  AuditTellsReplaced
  ServesOneTable
  EmptyOnlyFromFile
