SPECIFICATION Spec
CONSTANTS
    h1 = h1  h2 = h2  r1 = r1  r2 = r2  u1 = u1
    m1 = m1  m2 = m2  m3 = m3  m4 = m4  e1 = e1  e3 = e3  e4 = e4
    NoMessage = NoMessage  NoRow = NoRow  NoUser = NoUser
    Handlers = {h1, h2}
    Rows = {r1}
    Users = {u1}
    Messages = {m1, m2, m3, m4}
    RowUser <- OneRow
    Hash <- MCHash
    Body <- MCBody
    Actions = {"CLOSE_CASE", "FORCE_RETRY", "ESCALATE"}
    InitialStates <- Found
    ExecutionModeText <- DeployedText
SYMMETRY Symmetry
INVARIANTS
    AcksTruthful
