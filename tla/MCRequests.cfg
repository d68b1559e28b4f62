CONSTANTS
  Roots <- MCRoots
  Operators <- MCOperators
  Offsets <- MCOffsets
  MaxParts = 5
  Slots = 3
  EpochOf <- MCEpochOf
  Minted <- MCMinted
  Utxos <- MCUtxos
  Rewards <- MCRewards
  Withdrawals <- MCWithdrawals
  Reserves <- MCReserves
  MaxLovelaceSupply = 100
  Outputs <- MCOutputs
  AssetIds = {"a", "b"}
  RowLimit = 2
  IndexedCounts = {2, 397, 398}
  MaxQueryComplexity = 10
SPECIFICATION FairSpec
INVARIANTS TypeOK CostIsTheWeight SummaryAdds
PROPERTIES NeverCheaper AdaStaysReady AdaFollows ReadyHonest Stops
