SPECIFICATION StartSpec
CONSTANTS
    CommandLines <- MCCommandLines
    Values <- MCValues
    Atoi <- MCAtoi
    Numeric <- MCNumeric
    Plain <- MCPlain
    Directories = {"app"}
    Files = {"file"}
    LongNames = {"long"}
    LongArguments = {"huge"}
INVARIANTS
    ConfigurationMeansArguments
    StartsWhatWasGiven
