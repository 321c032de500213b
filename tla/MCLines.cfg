SPECIFICATION FairSpec
CONSTANTS Characters <- MCCharacters
          Inputs <- MCInputs
INVARIANT ReadAsWritten
PROPERTY Termination
CHECK_DEADLOCK FALSE
