\* Both features on; two searches, so that members are shared.
CONSTANTS
    EmpNos = {k1}
    Employee = {v1}
    Searches = {s1, s2}
    SleepIds = {z1}
    CacheTTL = 1
    InProgressTTL = 0
    NotFoundTTL = 1
    InProgressEnabled = TRUE
    NotFoundEnabled = TRUE
SPECIFICATION CacheFairSpec
INVARIANTS ClaimExcludesCached MembersNoOlderThanSearch
PROPERTIES
    EmployeePrunerSparesLiveSearches
    ClaimsAreReleased
    NotFoundSearchesForgotten
    TruncatedSearchesEnd
    AbsencesEndUnlessRecordedAgain
