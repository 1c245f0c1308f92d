CONSTANTS
  Name = {"x", "y"}
  MaxDepth = 2
  MaxText = 4
SPECIFICATION PathsSpec
INVARIANTS WrittenLinksLead ManagedIffInside
