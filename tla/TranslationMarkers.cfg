\* The same instance, for the schema comment of the translation columns.
SPECIFICATION TranslationSpec
CONSTANTS
    Langs = {"ru", "en"}
    MessageLang <- MCMessageLang
    Wordless = {2}
    EnvLang = "ru"
    Models = {"m1"}
    EnvModel = "m0"
    Passes = {"tui"}
    Lists <- MCLists
    UserModes = {"only_unknown"}
    MaxSaves = 1
INVARIANTS MarkersAreDecisions
