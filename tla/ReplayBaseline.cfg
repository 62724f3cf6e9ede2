SPECIFICATION Spec
CONSTANTS
  shared = shared
  large = large
  withheld = withheld
  Shared = {shared}
  Large = {large}
  Withheld = {withheld}
  Zero = Zero
  None = None
  Torn = Torn
  MaxFaults = 1
INVARIANT
  BaselineIsNotCharged
