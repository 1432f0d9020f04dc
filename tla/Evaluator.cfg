CONSTANTS
    MaxElements = 8
    NoVar = "-"
    Menu = "open"
    Names <- SmallNames
    Sessions <- SmallSessions
    Files <- SmallFiles
    Home = "/home/u"
    WorkDir = "/w"
    Shown <- SmallShown
    Tables <- SmallTables
    Styles <- SmallStyles
    Formats <- SmallFormats
    Facts <- SmallFacts
    Registered = {"tag"}
SPECIFICATION Spec
PROPERTIES
    KnownInKnownOut
    OpenAnswersHold
    ObjectLoopsMean
    CollectionsMean
    DecodesBack
    DecodesMeaning
    DatesAgree
    SubnetsFit
    TextsMean
