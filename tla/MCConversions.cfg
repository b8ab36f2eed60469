SPECIFICATION ConvSpec
CONSTANTS
    GobInputs <- MCGobInputs
    EnvelopeInputs <- MCEnvelopeInputs
    SessionInputs <- MCSessionInputs
    SizeInputs <- MCSizeInputs
    PrefixInputs <- MCPrefixInputs
    IdInputs <- MCIdInputs
    NextInputs <- MCNextInputs
    SettingInputs <- MCSettingInputs
    ClaimInputs <- MCClaimInputs
    EmailInputs <- MCEmailInputs
    GroupInputs <- MCGroupInputs
    SettingsInputs <- MCSettingsInputs
    BearerInputs <- MCBearerInputs
    PolicyInputs <- MCPolicyInputs
CHECK_DEADLOCK FALSE
INVARIANTS
    SessionsWork
    NamesMeanThemselves
    ClaimsMeanTheSame
    BearersWork
    BuilderTruthful
