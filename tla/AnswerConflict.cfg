\* With synthesis a qualified text behind the first row is answered as supported.
CONSTANTS
    A = A
    B = B
    n1 = n1
    n2 = n2
    x = x
    y = y
    z = z
    app1 = app1
    app2 = app2
    NoRow = NoRow
    NoAsk = NoAsk
    Nobody = Nobody
    NoReply = NoReply
    NoApplication = NoApplication
    Registries = {A, B}
    Natives = {n1, n2}
    Bodies = {x, y, z}
    Qualified = {z}
    Applications = {app1, app2}
    Questions <- MCQuestions
    Definitions <- MCDefinitions
    Captures <- MCCaptures
    EvidenceLimit = 2
    MarketViews = {"market_catalog"}
    Requests = {r1}
    Synthesis = TRUE
    MaxPublish = 2
SPECIFICATION Spec
INVARIANTS
    QualifiedIsConditional
CHECK_DEADLOCK FALSE
