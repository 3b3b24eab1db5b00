CONSTANTS
  Titles = {1, 2, 3, 4}
  MaxItems = 6
SPECIFICATION Spec
INVARIANT BalancedUntilRemoval
PROPERTY ImplementsCatalog
