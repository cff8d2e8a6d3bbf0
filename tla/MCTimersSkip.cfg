SPECIFICATION ServerFairSpec
CONSTANTS
    m1 = m1
    m2 = m2
    m3 = m3
    m4 = m4
    once1 = once1
    once2 = once2
    every1 = every1
    every2 = every2
    NoTimer = NoTimer
    Timers <- MCTimersAll
    Secs <- MCSecs
    MaxSecs = 2
    Repeating <- MCEvery
    Lag = 1
    Steps = {1, 2}
    DelOutside <- MCOnce
    DelInTick <- MCOnce
    DelReached = {}
    LdCore = core
    LdModules = {m1, m2, m3, m4}
    LdAlphabet <- MCLdAlphabet
    LdPriority <- MCLdPriority
    LdHooks <- MCLdHooks
    LdCommands <- MCLdCommands
    LdWants <- MCLdWants
    LdCoreOwned = {"JOIN", "PART"}
    LdOffers <- MCLdOffers
    LdNeeds <- MCLdNeeds
    XlUsers = {xu}
    XlLinks = {s1}
    XlMasks = {ip, host}
    XlByHost = {host}
    XlDurations = {0, 1}
    XlAges = {1}
    XlMaxLines = 2
    WhNicks = {wa, wb, wc}
    WhGroupSizes = {0, 1, 2}
    WhMaxGroups = {0, 1, 2}
    WhKeep = 0
    WhOld = 1
    CfFiles = {"main", "inc1", "inc2"}
    CfMain = "main"
    CfDisks <- MCCfDisks
    CfEdits = 2
    CfNoName = noname
    TxKeys <- MCTxKeys
    TxValues <- MCTxValues
    TxComments <- MCTxComments
    JsBits = 5
    JsNames <- MCJsNames
    JsStrings <- MCJsStrings
    JsNumbers <- MCJsNumbers
    JsMethods <- MCJsMethods
    JsSteps = 3
    TkWords <- MCTkWords
    TkFirsts <- MCTkFirsts
    TkLasts <- MCTkLasts
    TkParams = 3
    TkItems <- MCTkItems
    TkKeys <- MCTkKeys
    TkEntries = 3
    TkMaxTargets = 2
    MkLetters = {"o"}
    MkLengths = {0, 2, 3, 11}
    MkMost = 4
    MkMaxModes = 3
    MkMaxLine = 14
    PpPorts = {0, 1, 3}
    PpElements = 3
    PpTop = 3
    DuLetters <- MCDuLetters
    DuMulti <- MCDuMulti
    DuDigits = {0, 2}
    DuLength = 4
    MsChars = {65, 91, 97}
    MsFold <- MCMsFold
    MsTexts <- MCMsTexts
    MsMasks <- MCMsMasks
    MsNames <- MCMsNames
    CiWidth = 2
    CiBytes <- MCCiBytes
    CiIp6 = TRUE
    CiQuestions <- MCCiQuestions
INVARIANTS
    NoneMissed
CHECK_DEADLOCK FALSE
