CONSTANTS
  Nets = {1}
  TokenContracts = {c1, c2}
  Holders = {Zero, a1, a2}
  Zero = Zero
  Amounts = {1, 2}
  MaxSupply = 3
  U128Modulus = 8
  Absent = Absent
SPECIFICATION ContractsSpec
SYMMETRY Symmetry
INVARIANT MirrorMatchesToken
