\* Saving a value that was loaded and not decrypted.
SPECIFICATION Spec
CONSTANTS
  Obj = {o1}
  Text = {"s"}
  MaxDek = 1
  MaxKey = 1
PROPERTY DocumentedSave
