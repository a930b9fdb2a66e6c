SPECIFICATION GenSpec
CONSTANTS
    Ascii = {0, 1}
    Lead = 2
    Trail = 3
    BOS = 4
    EOS = 5
    Bad = Bad
    Logits <- MCIndexed
    Prompt <- MCPrompt
    Params <- MCParams
    MaxContext = 4
    Grain = 4
    TokenizerType = "Tiktoken"
    Adapter = "lora"
    Said <- MCSaid
    Nothing = Nothing
INVARIANTS
    StopSequencesEndTheText
    ToldIsReturned
PROPERTIES
    SampledIsLikely
