SPECIFICATION Spec
CONSTANTS
  Mail = {m}
  Default = 1
  MaxDays = 2
  MaxAge = 3
  None = none
INVARIANTS NoEarlyPurge FieldShowsSetting
PROPERTY ExpiredIsPurged
