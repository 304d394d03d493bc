SPECIFICATION ConversionSpec
CONSTANTS
    Descriptions <- MCDescriptions
    Top = 31
INVARIANTS LbeIsLittle
