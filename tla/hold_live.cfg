\* A compliance hold against the permission of live outreach.
CONSTANTS
    Requests <- MCRequests
    FactValues <- MCFactValues
    Nullable = {"hws"}
    Histories <- MCHistories
    Standings <- MCStandings
    Outreaches <- MCOutreaches
    InsightStates <- MCInsights
    Lines <- MCLines
    Limits <- MCLimits
SPECIFICATION Spec
INVARIANT
    HoldNeverLive
