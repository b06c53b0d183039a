SPECIFICATION Spec
CONSTANTS
    pro = pro
    flash = flash
    none = none
    key = key
    fix = fix
    task = task
    closing = closing
    theClosing = theClosing
    blank = blank
    cand = cand
    anchor = anchor
    e1 = e1
    e2 = e2
    None = none
    Blank = blank
    Normal <- NormalForm
    Variants <- Spellings
    BodyFields <- Gotcha
    Datasets <- Loadable
    Setups <- Starts
    CaseCount = 2
    Repeats = 2
    MaxAttempts = 2
    Models = {pro, flash}
    Answers <- Replies
    Failures = {"judge_timeout", "judge_authentication_error"}
    MaxFailures = 1
CHECK_DEADLOCK FALSE
INVARIANTS
    RecordsTell
    FilesTell
    HonestIsAdmitted
    CasesAnswerable
