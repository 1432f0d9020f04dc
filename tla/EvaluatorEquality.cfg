CONSTANTS
    MaxElements = 8
    NoVar = "-"
    Menu = "equality"
    Names <- SmallNames
    Sessions <- SmallSessions
    Files <- SmallFiles
    Home = "/home/u"
    WorkDir = "/w"
    Shown <- SmallShown
    Tables <- SmallTables
    Styles <- SmallStyles
    Formats <- SmallFormats
    Facts <- SmallFacts
    Registered = {"tag"}
SPECIFICATION Spec
PROPERTY AnswersHold
