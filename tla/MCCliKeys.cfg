SPECIFICATION Spec
CONSTANTS
  new1 = new1
  new2 = new2
  new3 = new3
  long = long
  short1 = short1
  short2 = short2
  file64 = file64
  file32 = file32
  Invalid = Invalid
  None = None
  left = left
  right = right
  Terminal = {left, right}
  Address <- MCAddress
  typeOf <- MCTypes
  File = {file64, file32}
  content <- MCContent
INVARIANTS
  TypeOK
  KeysKept
  AnnouncedIsDefault
PROPERTIES
  KeysStay
