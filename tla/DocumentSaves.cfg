\* One agent, the editor, a move of other files; four edits in all.
SPECIFICATION FairSpec
CONSTANTS
    Agents = {x}
    x = x
    None = None
    MaxEdits = 4
    MaxFaults = 1
    Overtaken = FALSE
    Late = FALSE
    TypesAhead = FALSE
CHECK_DEADLOCK FALSE
INVARIANTS TypeOK TypingSurvives
PROPERTIES NothingErased TypingSettles
