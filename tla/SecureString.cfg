SPECIFICATION Spec
CONSTANTS
  Obj = {o1, o2}
  Text = {"s", "t"}
  MaxDek = 2
  MaxKey = 2
INVARIANTS
  ColumnReadable
  SavesWhatItWasGiven
