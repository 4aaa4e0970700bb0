SPECIFICATION Spec
CONSTANTS
  Pages = {0, 1, 2}
  Offsets = {o1, o2}
  Valid = {mov, add}
  Flaky = {movi}
  Illegal = {swp}
  Unknown = {junk}
INVARIANTS TypeOK ResultIsFresh StableDecode NoDangling PageZeroSaves
