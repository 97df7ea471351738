SPECIFICATION ArgSpec
CONSTANTS
  CommandLines <- Lines
  MaxArguments = 5
INVARIANT AcceptedIsLegal
INVARIANT OptionsMeanWhatWasSaid
\* The program ends.
CHECK_DEADLOCK FALSE
