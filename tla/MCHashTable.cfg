\* Two tables to copy between, two keys one of which is empty, a pointer and
\* NULL to insert, two blocks, so that calloc also fails for want of one, and
\* tables of at most three entries: enough for a hole at the front, in the
\* middle and at the end.
CONSTANTS
  Tbl = {t, u}
  Key = {k, empty}
  EmptyKey = empty
  Gens = {"digest", "plain"}
  Text <- MCText
  Ptr = {p, null}
  Null = null
  Block = {b1, b2}
  Limits = {3}
SYMMETRY Symmetric
SPECIFICATION Spec
INVARIANTS
  TypeOK
  HeapOwned
  CopyComplete
PROPERTIES
  BindingKept
  LeakOnlyByRemove
