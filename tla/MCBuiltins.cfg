CONSTANTS
  nil = nil
  Texts <- MCTexts
  Ints <- MCInts
  Halves <- MCHalves
  Alphabet = {10, 35, 48, 92, 127}
  MaxText = 3
SPECIFICATION Spec
INVARIANT StopsForNilOnly
PROPERTY LibrarySpec
