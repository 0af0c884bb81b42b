CONSTANTS
    Ids = {"a", "b"}
    Pages = {0, 1}
    PagesOf <- FewParts
    Callers = {c1}
    MaxChanges = 2
SPECIFICATION FairSpec
INVARIANTS AnswersAreHonest
PROPERTIES NoRestart FollowsRoom FollowsInOrder EditHitsItsSong
CHECK_DEADLOCK FALSE
