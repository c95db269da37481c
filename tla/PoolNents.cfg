\* Every size of a 20 page pool with every small bound; the parameter is
\* written at any moment of a create.
SPECIFICATION CreateSpec
CONSTANTS
  Size = 20
  Pow2 <- Powers
  Params <- Values
INVARIANTS
  NeverTrips
  WholeBlocks
