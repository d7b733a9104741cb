\* Everything the engines say of one student.
CONSTANTS
    Requests <- MCRequests
    FactValues <- MCFactValues
    Nullable = {"hws"}
    Histories <- MCHistories
    Standings <- MCStandings
    Outreaches <- MCOutreaches
    InsightStates <- MCInsights
    Lines <- MCLines
    Limits <- MCLimits
SPECIFICATION Spec
INVARIANTS
    TypeOK
    HoldAgreed
    ReplayContained
    IntentWithinScope
    RisksOrdered
    InsightTrustedAlike
    OpenChannelsOnly
    DisplaysAgree
PROPERTIES
    WorseNeverCalmer
