\* Two bytes per character; every size up to and beyond what a length can hold.
CONSTANTS
  Unit = 2
  LengthLimit = 10
  MaxSize = 24
  NumberSize = 4
SPECIFICATION BuffersSpec
INVARIANTS NoOverrun NoOverread SuccessIsWhole CutIsLongestPrefix RepeatSucceeds
