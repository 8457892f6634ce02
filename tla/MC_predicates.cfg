CONSTANTS
    BinArgs <- MCBinArgs
    IndexArgs <- MCIndexArgs
    ValueArgs <- MCValueArgs
    OpArgs <- MCOpArgs
SPECIFICATION Spec
INVARIANT PredicatesMeanWhatIsAsked
