\* One session, two posts that may have one text, with and without channels, a history that
\* looks at one run only, and an artifact id that agents give, here and elsewhere.
SPECIFICATION Spec
CONSTANTS
    s1 = s1
    p1 = p1
    p2 = p2
    t1 = t1
    t2 = t2
    ui = ui
    telegram = telegram
    c1 = c1
    x1 = x1
    reply = reply
    None = None
    Direct = Direct
    Sessions = {s1}
    Posts = {p1, p2}
    Strangers = {x1}
    AgentIds = {reply}
    Texts = {t1, t2}
    Channels = {ui, telegram}
    Exposed = {ui, telegram}
    Owned = {telegram}
    Readers = {c1}
    HistoryLimit = 1
    FirstId = 11
SYMMETRY Symmetry
VIEW Unordered
CHECK_DEADLOCK FALSE
INVARIANTS
    TypeOK
    MessagesWereSent
    HistoryLinksOwnRuns
    ShownSuccessIsWhole
