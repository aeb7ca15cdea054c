CONSTANTS
    invalidJson = invalidJson
    NaN = NaN
    NotSet = NotSet
    NumberFields <- MCNumberFields
    NumberTexts <- MCNumberTexts
    GasTexts <- MCGasTexts
    CallMessages <- MCCallMessages
    ValidJson <- MCValidJson
    SequencerUrls <- MCSequencerUrls
    MaxClicks = 3
    MaxEdits = 3
SPECIFICATION Spec
PROPERTIES AnswersKeepOtherFields
