CONSTANTS
  Hash = {a, b}
  Path = {p}
  None = None
  MaxUnsynced = 2
SPECIFICATION Spec
INVARIANTS SweptStaysSwept
PROPERTIES SafeStaysSafe
